---- MODULE Spec2Model ----
(***************************************************************************)
(* Offer dispatch, matching and wallet ledger of the marketplace           *)
(* (Myapp/views.py).  Two specifications share the variables:              *)
(*   Spec      every view handler is one atomic action (sequential use);   *)
(*   ConcSpec  provider_accept_offer, select_provider_offer and            *)
(*             apply_wallet_transaction run as transactions of concurrent  *)
(*             workers that take row locks (select_for_update) one at a    *)
(*             time and write at commit.                                   *)
(***************************************************************************)
EXTENDS Integers, Sequences, FiniteSets, TLC

(* ------------------------------ bounds --------------------------------- *)
MaxRequests == 1
MaxTime == 2
MaxWalletRequests == 2
MaxLedger == 2
MaxMessages == 1
MaxConcRequests == 1
MaxConcTime == 1

(* ------------------------- values and settings ------------------------- *)
Null == -1
NoProvider == "none"
NoOffer == [status |-> "none"]
NoRequest == [status |-> "none"]
NoWallet == [missing |-> TRUE]
NoAppointment == [status |-> "none"]
NoOfferId == <<0, NoProvider>>

ANY_DISTRICT_VALUE == "Herhangi"

(* settings.OFFER_EXPIRY_MINUTES, OFFER_REMINDER_MINUTES,                  *)
(* INITIAL_PROVIDER_CREDITS, QUOTE_CREDIT_COST as the deployment sets them *)
SettingsChoices ==
    { [OFFER_EXPIRY_MINUTES |-> 2, OFFER_REMINDER_MINUTES |-> 1,
       INITIAL_PROVIDER_CREDITS |-> 2, QUOTE_CREDIT_COST |-> 1],
      [OFFER_EXPIRY_MINUTES |-> 1, OFFER_REMINDER_MINUTES |-> 1,
       INITIAL_PROVIDER_CREDITS |-> 1, QUOTE_CREDIT_COST |-> 2],
      [OFFER_EXPIRY_MINUTES |-> 0, OFFER_REMINDER_MINUTES |-> 2,
       INITIAL_PROVIDER_CREDITS |-> 0, QUOTE_CREDIT_COST |-> 0] }

Max(a, b) == IF a >= b THEN a ELSE b
Min(a, b) == IF a <= b THEN a ELSE b

get_offer_expiry_minutes(s) == Max(1, s.OFFER_EXPIRY_MINUTES)
get_offer_reminder_minutes(s) == Max(1, s.OFFER_REMINDER_MINUTES)
get_initial_provider_credits(s) == Max(0, s.INITIAL_PROVIDER_CREDITS)
get_quote_credit_cost(s) == Max(1, s.QUOTE_CREDIT_COST)

(* credits of the default package catalog, scaled to the small balances    *)
PackageCredits == {2}
(* amounts handed to apply_wallet_transaction directly                     *)
WalletAmounts == {-1}

(* ------------------------------ providers ------------------------------ *)
Providers == {"p1", "p2", "p3", "p4"}
Cities == {"Lefkosa", "Girne"}
Districts == {"Ortakoy", ANY_DISTRICT_VALUE}

(* the Provider rows: two providers can serve a request in Lefkosa, one in *)
(* each district; p3 offers another service, p4 is not available           *)
Provider(p) ==
    CASE p = "p1" -> [full_name |-> 1, city |-> "Lefkosa", district |-> "Ortakoy",
                      rating |-> 48, is_available |-> TRUE, service |-> "Tesisat"]
      [] p = "p2" -> [full_name |-> 2, city |-> "lefkosa", district |-> "Kumsal",
                      rating |-> 49, is_available |-> TRUE, service |-> "Tesisat"]
      [] p = "p3" -> [full_name |-> 3, city |-> "Girne", district |-> "Ortakoy",
                      rating |-> 40, is_available |-> TRUE, service |-> "Elektrik"]
      [] OTHER    -> [full_name |-> 4, city |-> "Lefkosa", district |-> "Ortakoy",
                      rating |-> 50, is_available |-> FALSE, service |-> "Tesisat"]

(* case folding of the __iexact lookups *)
iexact(s) ==
    CASE s = "Lefkosa" -> "lefkosa"
      [] s = "Girne" -> "girne"
      [] s = "Ortakoy" -> "ortakoy"
      [] s = "Kumsal" -> "kumsal"
      [] s = "Herhangi" -> "herhangi"
      [] OTHER -> s

SeqToSet(s) == {s[i] : i \in DOMAIN s}

VARIABLES
    settings,     \* the deployment's settings
    available,    \* the providers with is_available set
    rating,       \* Provider.rating by provider, in tenths
    now,          \* timezone.now()
    requests,     \* ServiceRequest rows by id
    next_id,      \* number of ServiceRequest rows ever created
    offers,       \* ProviderOffer rows by (service_request, provider)
    wallets,      \* ProviderWallet.balance by provider
    ledger,       \* CreditTransaction rows by provider, in creation order
    appointments, \* ServiceAppointment row by service_request (one to one)
    messages,     \* ServiceMessage rows by service_request: the sender roles
    tx            \* the transaction each worker is running

vars == <<settings, available, rating, now, requests, next_id, offers, wallets, ledger, appointments, messages, tx>>

(* the tables as one value, for the handlers that are functions of them *)
Db == [requests |-> requests, offers |-> offers, wallets |-> wallets, ledger |-> ledger,
       appointments |-> appointments, messages |-> messages]

Workers == {"w1", "w2"}
Idle == [pc |-> "idle", locks |-> {}]

RequestIds == 1..Max(Max(MaxRequests, MaxWalletRequests), MaxConcRequests)
OfferIds == RequestIds \X Providers

Init ==
    /\ settings \in SettingsChoices
    /\ available = {p \in Providers : Provider(p).is_available}
    /\ rating = [p \in Providers |-> Provider(p).rating]
    /\ now = 0
    /\ requests = [r \in RequestIds |-> NoRequest]
    /\ next_id = 0
    /\ offers = [o \in OfferIds |-> NoOffer]
    /\ wallets = [p \in Providers |-> NoWallet]
    /\ ledger = [p \in Providers |-> <<>>]
    /\ appointments = [r \in RequestIds |-> NoAppointment]
    /\ messages = [r \in RequestIds |-> <<>>]
    /\ tx = [w \in Workers |-> Idle]

(* ------------------------- candidate selector -------------------------- *)
ServiceTypes == {"Tesisat"}

(* order_by("-rating", "full_name") *)
Before(p, q) ==
    \/ rating[p] > rating[q]
    \/ rating[p] = rating[q] /\ Provider(p).full_name < Provider(q).full_name

RECURSIVE OrderBy(_)
OrderBy(S) ==
    IF S = {} THEN <<>>
    ELSE LET first == CHOOSE p \in S : \A q \in S \ {p} : Before(p, q)
         IN <<first>> \o OrderBy(S \ {first})

base_qs(service_request) ==
    { p \in Providers :
        /\ p \in available
        /\ Provider(p).service = service_request.service_type
        /\ iexact(Provider(p).city) = iexact(service_request.city) }

build_provider_candidate_groups(service_request) ==
    IF service_request.district = ANY_DISTRICT_VALUE
    THEN << OrderBy(base_qs(service_request)) >>
    ELSE LET district_first ==
                 { p \in base_qs(service_request) :
                     iexact(Provider(p).district) = iexact(service_request.district) }
             remaining_city == base_qs(service_request) \ district_first
         IN (IF district_first # {} THEN << OrderBy(district_first) >> ELSE <<>>)
            \o (IF remaining_city # {} THEN << OrderBy(remaining_city) >> ELSE <<>>)

(* ------------------------------ dispatcher ----------------------------- *)
OffersOf(offs, rid) == { p \in Providers : offs[<<rid, p>>] # NoOffer }
OffersWith(offs, rid, statuses) == { p \in Providers : offs[<<rid, p>>].status \in statuses }

Unmatch(service_request, status) ==
    [service_request EXCEPT !.status = status, !.matched_provider = NoProvider,
                            !.matched_offer = NoOfferId, !.matched_at = Null]

IndexOf(seq, x) == CHOOSE i \in DOMAIN seq : seq[i] = x

NewOffer(sequence, t, s) ==
    [status |-> "pending", sequence |-> sequence, sent_at |-> t,
     expires_at |-> t + get_offer_expiry_minutes(s), reminder_sent_at |-> Null,
     responded_at |-> Null, quote_amount |-> Null]

(* dispatch_next_provider_offer that offers the request to the best       *)
(* provider of the tier only                                              *)
dispatch_next_provider_offer_single(rid, service_request, offs, t, s) ==
    LET groups == build_provider_candidate_groups(service_request)
        offered_provider_ids == OffersOf(offs, rid)
        open == { i \in DOMAIN groups : SeqToSet(groups[i]) \ offered_provider_ids # {} }
    IN IF groups = <<>>
       THEN [result |-> "no-candidates", request |-> Unmatch(service_request, "new"), offers |-> offs]
       ELSE IF open = {}
       THEN [result |-> "all-contacted", request |-> Unmatch(service_request, "new"), offers |-> offs]
       ELSE LET g == CHOOSE i \in open : \A j \in open : i <= j
                next_providers == SubSeq(SelectSeq(groups[g],
                                                   LAMBDA p : p \notin offered_provider_ids), 1, 1)
                count == Cardinality(offered_provider_ids)
            IN [result |-> "offers-created",
                request |-> Unmatch(service_request, "pending_provider"),
                offers |-> [o \in OfferIds |->
                              IF o[1] = rid /\ o[2] \in SeqToSet(next_providers)
                              THEN NewOffer(count + IndexOf(next_providers, o[2]), t, s)
                              ELSE offs[o]]]

(* dispatch_next_provider_offer that does not look at offered_provider_ids: *)
(* the first tier is offered the request again                             *)
dispatch_next_provider_offer_again(rid, service_request, offs, t, s) ==
    LET groups == build_provider_candidate_groups(service_request)
        count == Cardinality(OffersOf(offs, rid))
    IN IF groups = <<>>
       THEN [result |-> "no-candidates", request |-> Unmatch(service_request, "new"), offers |-> offs]
       ELSE IF groups[1] = <<>>
       THEN [result |-> "all-contacted", request |-> Unmatch(service_request, "new"), offers |-> offs]
       ELSE [result |-> "offers-created",
             request |-> Unmatch(service_request, "pending_provider"),
             offers |-> [o \in OfferIds |->
                           IF o[1] = rid /\ o[2] \in SeqToSet(groups[1])
                           THEN NewOffer(count + IndexOf(groups[1], o[2]), t, s)
                           ELSE offs[o]]]

(* returns the result, the saved request and the offer table *)
dispatch_next_provider_offer(rid, service_request, offs, t, s) ==
    LET groups == build_provider_candidate_groups(service_request)
        offered_provider_ids == OffersOf(offs, rid)
        open == { i \in DOMAIN groups : SeqToSet(groups[i]) \ offered_provider_ids # {} }
    IN IF groups = <<>>
       THEN [result |-> "no-candidates", request |-> Unmatch(service_request, "new"), offers |-> offs]
       ELSE IF open = {}
       THEN [result |-> "all-contacted", request |-> Unmatch(service_request, "new"), offers |-> offs]
       ELSE LET g == CHOOSE i \in open : \A j \in open : i <= j
                next_providers == SelectSeq(groups[g], LAMBDA p : p \notin offered_provider_ids)
                count == Cardinality(offered_provider_ids)
            IN [result |-> "offers-created",
                request |-> Unmatch(service_request, "pending_provider"),
                offers |-> [o \in OfferIds |->
                              IF o[1] = rid /\ o[2] \in SeqToSet(next_providers)
                              THEN NewOffer(count + IndexOf(next_providers, o[2]), t, s)
                              ELSE offs[o]]]

(* ------------------------------- wallet -------------------------------- *)
LedgerRow(type, amount, balance_after, reference_offer) ==
    [transaction_type |-> type, amount |-> amount, balance_after |-> balance_after,
     reference_offer |-> reference_offer]

(* get_or_create_provider_wallet without the welcome row: the grant is    *)
(* credited and not ledgered                                              *)
get_or_create_provider_wallet_unledgered(wallet, rows, s) ==
    IF wallet # NoWallet
    THEN [balance |-> wallet.balance, rows |-> rows, created |-> FALSE]
    ELSE [balance |-> get_initial_provider_credits(s), rows |-> rows, created |-> TRUE]

(* wallet is the provider's ProviderWallet row, or NoWallet *)
get_or_create_provider_wallet(wallet, rows, s) ==
    LET initial_credits == get_initial_provider_credits(s)
    IN IF wallet # NoWallet
       THEN [balance |-> wallet.balance, rows |-> rows, created |-> FALSE]
       ELSE [balance |-> initial_credits,
             rows |-> IF initial_credits > 0
                      THEN Append(rows, LedgerRow("welcome", initial_credits, initial_credits, NoOfferId))
                      ELSE rows,
             created |-> TRUE]

(* apply_wallet_transaction without the next_balance < 0 guard *)
apply_wallet_transaction_unguarded(row, rows, amount, type, reference_offer, s) ==
    LET wallet == get_or_create_provider_wallet(row, rows, s)
        next_balance == wallet.balance + amount
    IN [ok |-> TRUE, balance |-> next_balance,
        rows |-> Append(wallet.rows, LedgerRow(type, amount, next_balance, reference_offer))]

apply_wallet_transaction(row, rows, amount, type, reference_offer, s) ==
    LET wallet == get_or_create_provider_wallet(row, rows, s)
        next_balance == wallet.balance + amount
    IN IF next_balance < 0
       THEN [ok |-> FALSE, balance |-> wallet.balance, rows |-> wallet.rows]
       ELSE [ok |-> TRUE, balance |-> next_balance,
             rows |-> Append(wallet.rows, LedgerRow(type, amount, next_balance, reference_offer))]

RECURSIVE SumAmounts(_)
SumAmounts(rows) ==
    IF rows = <<>> THEN 0 ELSE rows[1].amount + SumAmounts(Tail(rows))

(* --------------------------- quote parsing ----------------------------- *)
QuoteInputs == {"", " ", "abc", "NaN", "0", "-5", "950", "1800"}
(* the quotes of the concurrent accepts *)
ConcQuoteInputs == {"950"}

(* (request.POST.get("quote_amount") or "").strip().replace(",", ".") *)
StripQuote(raw) == IF raw = " " THEN "" ELSE raw

(* Decimal(raw): InvalidOperation for text, NaN parses *)
Decimal(raw) ==
    CASE raw = "0" -> [ok |-> TRUE, nan |-> FALSE, value |-> 0]
      [] raw = "-5" -> [ok |-> TRUE, nan |-> FALSE, value |-> -5]
      [] raw = "950" -> [ok |-> TRUE, nan |-> FALSE, value |-> 950]
      [] raw = "1800" -> [ok |-> TRUE, nan |-> FALSE, value |-> 1800]
      [] raw = "NaN" -> [ok |-> TRUE, nan |-> TRUE, value |-> 0]
      [] OTHER -> [ok |-> FALSE, nan |-> FALSE, value |-> 0]

ClosedStatuses == {"matched", "completed", "cancelled"}

(* accept_checks without the offer.status != "pending" return: an offer   *)
(* already answered is taken again                                        *)
accept_checks_any_status(offer, service_request, raw) ==
    LET raw_quote_amount == StripQuote(raw)
        quote_amount == Decimal(raw_quote_amount)
    IN IF service_request.status \in ClosedStatuses THEN "request-not-open"
       ELSE IF raw_quote_amount = "" THEN "quote-required"
       ELSE IF ~quote_amount.ok THEN "quote-invalid"
       ELSE IF quote_amount.nan THEN "server-error"
       ELSE IF quote_amount.value <= 0 THEN "quote-not-positive"
       ELSE "ok"

(* the checks of provider_accept_offer on the locked offer and request,   *)
(* before the wallet is touched                                           *)
accept_checks(offer, service_request, raw) ==
    LET raw_quote_amount == StripQuote(raw)
        quote_amount == Decimal(raw_quote_amount)
    IN IF offer.status # "pending" THEN "offer-not-open"
       ELSE IF service_request.status \in ClosedStatuses THEN "request-not-open"
       ELSE IF raw_quote_amount = "" THEN "quote-required"
       ELSE IF ~quote_amount.ok THEN "quote-invalid"
       ELSE IF quote_amount.nan THEN "server-error"
       ELSE IF quote_amount.value <= 0 THEN "quote-not-positive"
       ELSE "ok"

(* accept_body that accepts the offer and leaves the wallet as it read it *)
accept_body_no_debit(oid, offer, service_request, row, rows, raw, t, s) ==
    LET checked == accept_checks(offer, service_request, raw)
        wallet == get_or_create_provider_wallet(row, rows, s)
    IN IF checked = "request-not-open"
       THEN [result |-> checked,
             offer |-> [offer EXCEPT !.status = "expired", !.responded_at = t],
             status |-> service_request.status, wallet |-> row, rows |-> rows]
       ELSE IF checked # "ok"
       THEN [result |-> checked, offer |-> offer, status |-> service_request.status,
             wallet |-> row, rows |-> rows]
       ELSE IF wallet.balance < get_quote_credit_cost(s)
       THEN [result |-> "insufficient-credit", offer |-> offer,
             status |-> service_request.status,
             wallet |-> [balance |-> wallet.balance], rows |-> wallet.rows]
       ELSE [result |-> "accepted",
             offer |-> [offer EXCEPT !.status = "accepted", !.responded_at = t,
                                     !.quote_amount = Decimal(StripQuote(raw)).value],
             status |-> "pending_customer",
             wallet |-> [balance |-> wallet.balance], rows |-> wallet.rows]

(* accept_body that saves the offer before it looks at the balance: a     *)
(* blocked accept leaves the offer accepted                               *)
accept_body_late_balance_check(oid, offer, service_request, row, rows, raw, t, s) ==
    LET checked == accept_checks(offer, service_request, raw)
        wallet == get_or_create_provider_wallet(row, rows, s)
        quote_credit_cost == get_quote_credit_cost(s)
        accepted == [offer EXCEPT !.status = "accepted", !.responded_at = t,
                                  !.quote_amount = Decimal(StripQuote(raw)).value]
    IN IF checked = "request-not-open"
       THEN [result |-> checked,
             offer |-> [offer EXCEPT !.status = "expired", !.responded_at = t],
             status |-> service_request.status, wallet |-> row, rows |-> rows]
       ELSE IF checked # "ok"
       THEN [result |-> checked, offer |-> offer, status |-> service_request.status,
             wallet |-> row, rows |-> rows]
       ELSE IF wallet.balance < quote_credit_cost
       THEN [result |-> "insufficient-credit", offer |-> accepted,
             status |-> service_request.status,
             wallet |-> [balance |-> wallet.balance], rows |-> wallet.rows]
       ELSE [result |-> "accepted", offer |-> accepted, status |-> "pending_customer",
             wallet |-> [balance |-> wallet.balance - quote_credit_cost],
             rows |-> Append(wallet.rows,
                             LedgerRow("quote_fee", -quote_credit_cost,
                                       wallet.balance - quote_credit_cost, oid))]

(* the body of provider_accept_offer once the offer and request rows are   *)
(* read: the response and the rows it writes                               *)
(* accept_body that leaves the request's status as it was *)
accept_body_keeping_status(oid, offer, service_request, row, rows, raw, t, s) ==
    LET checked == accept_checks(offer, service_request, raw)
        quote_amount == Decimal(StripQuote(raw))
        quote_credit_cost == get_quote_credit_cost(s)
        wallet == get_or_create_provider_wallet(row, rows, s)
        same == [offer |-> offer, status |-> service_request.status,
                 wallet |-> row, rows |-> rows]
    IN IF checked = "request-not-open"
       THEN [same EXCEPT !.offer = [offer EXCEPT !.status = "expired", !.responded_at = t]]
            @@ [result |-> checked]
       ELSE IF checked # "ok"
       THEN [result |-> checked] @@ same
       ELSE IF wallet.balance < quote_credit_cost
       THEN [result |-> "insufficient-credit", offer |-> offer,
             status |-> service_request.status,
             wallet |-> [balance |-> wallet.balance], rows |-> wallet.rows]
       ELSE [result |-> "accepted",
             offer |-> [offer EXCEPT !.status = "accepted", !.responded_at = t,
                                     !.quote_amount = quote_amount.value],
             status |-> service_request.status,
             wallet |-> [balance |-> wallet.balance - quote_credit_cost],
             rows |-> Append(wallet.rows,
                             LedgerRow("quote_fee", -quote_credit_cost,
                                       wallet.balance - quote_credit_cost, oid))]

accept_body(oid, offer, service_request, row, rows, raw, t, s) ==
    LET checked == accept_checks(offer, service_request, raw)
        quote_amount == Decimal(StripQuote(raw))
        quote_credit_cost == get_quote_credit_cost(s)
        wallet == get_or_create_provider_wallet(row, rows, s)
        same == [offer |-> offer, status |-> service_request.status,
                 wallet |-> row, rows |-> rows]
    IN IF checked = "request-not-open"
       THEN [same EXCEPT !.offer = [offer EXCEPT !.status = "expired", !.responded_at = t]]
            @@ [result |-> checked]
       ELSE IF checked # "ok"
       THEN [result |-> checked] @@ same
       ELSE IF wallet.balance < quote_credit_cost
       THEN [result |-> "insufficient-credit", offer |-> offer,
             status |-> service_request.status,
             wallet |-> [balance |-> wallet.balance], rows |-> wallet.rows]
       ELSE [result |-> "accepted",
             offer |-> [offer EXCEPT !.status = "accepted", !.responded_at = t,
                                     !.quote_amount = quote_amount.value],
             status |-> "pending_customer",
             wallet |-> [balance |-> wallet.balance - quote_credit_cost],
             rows |-> Append(wallet.rows,
                             LedgerRow("quote_fee", -quote_credit_cost,
                                       wallet.balance - quote_credit_cost, oid))]

(* -------------------------- lifecycle sweep ---------------------------- *)
IsPending(o) == o.status = "pending"

(* refresh_offer_lifecycle with expires_at__lt in place of expires_at__lte *)
refresh_offer_lifecycle_strict(reqs, offs, t, s) ==
    LET expiry_minutes == get_offer_expiry_minutes(s)
        backfilled ==
            [o \in OfferIds |->
               IF IsPending(offs[o]) /\ offs[o].expires_at = Null
               THEN [offs[o] EXCEPT !.expires_at =
                        (IF offs[o].sent_at # Null THEN offs[o].sent_at ELSE t) + expiry_minutes]
               ELSE offs[o]]
        expired_qs == { o \in OfferIds : /\ IsPending(backfilled[o])
                                         /\ backfilled[o].expires_at # Null
                                         /\ backfilled[o].expires_at < t }
        expired_request_ids == { o[1] : o \in expired_qs }
        expired == [o \in OfferIds |->
                      IF o \in expired_qs
                      THEN [backfilled[o] EXCEPT !.status = "expired", !.responded_at = t]
                      ELSE backfilled[o]]
        reminder_deadline == t + get_offer_reminder_minutes(s)
        reminder_qs == { o \in OfferIds : /\ IsPending(expired[o])
                                          /\ expired[o].expires_at # Null
                                          /\ expired[o].expires_at > t
                                          /\ expired[o].expires_at <= reminder_deadline
                                          /\ expired[o].reminder_sent_at = Null }
        reminded == [o \in OfferIds |->
                       IF o \in reminder_qs
                       THEN [expired[o] EXCEPT !.reminder_sent_at = t]
                       ELSE expired[o]]
        impacted == { rid \in expired_request_ids :
                        /\ reqs[rid] # NoRequest
                        /\ reqs[rid].status \notin ClosedStatuses
                        /\ reqs[rid].matched_provider = NoProvider }
        has_pending(rid) == OffersWith(reminded, rid, {"pending"}) # {}
        has_accepted(rid) == OffersWith(reminded, rid, {"accepted"}) # {}
        redispatched == { rid \in impacted : ~has_accepted(rid) /\ ~has_pending(rid) }
        dispatched == [rid \in redispatched |->
                         dispatch_next_provider_offer(rid, reqs[rid], reminded, t, s)]
    IN [requests |->
          [rid \in RequestIds |->
             IF rid \notin impacted THEN reqs[rid]
             ELSE IF has_accepted(rid) THEN [reqs[rid] EXCEPT !.status = "pending_customer"]
             ELSE IF has_pending(rid) THEN [reqs[rid] EXCEPT !.status = "pending_provider"]
             ELSE dispatched[rid].request],
        offers |->
          [o \in OfferIds |->
             IF o[1] \in redispatched THEN dispatched[o[1]].offers[o] ELSE reminded[o]]]

(* returns the request and offer tables the sweep leaves *)
refresh_offer_lifecycle(reqs, offs, t, s) ==
    LET expiry_minutes == get_offer_expiry_minutes(s)
        backfilled ==
            [o \in OfferIds |->
               IF IsPending(offs[o]) /\ offs[o].expires_at = Null
               THEN [offs[o] EXCEPT !.expires_at =
                        (IF offs[o].sent_at # Null THEN offs[o].sent_at ELSE t) + expiry_minutes]
               ELSE offs[o]]
        expired_qs == { o \in OfferIds : /\ IsPending(backfilled[o])
                                         /\ backfilled[o].expires_at # Null
                                         /\ backfilled[o].expires_at <= t }
        expired_request_ids == { o[1] : o \in expired_qs }
        expired == [o \in OfferIds |->
                      IF o \in expired_qs
                      THEN [backfilled[o] EXCEPT !.status = "expired", !.responded_at = t]
                      ELSE backfilled[o]]
        reminder_deadline == t + get_offer_reminder_minutes(s)
        reminder_qs == { o \in OfferIds : /\ IsPending(expired[o])
                                          /\ expired[o].expires_at # Null
                                          /\ expired[o].expires_at > t
                                          /\ expired[o].expires_at <= reminder_deadline
                                          /\ expired[o].reminder_sent_at = Null }
        reminded == [o \in OfferIds |->
                       IF o \in reminder_qs
                       THEN [expired[o] EXCEPT !.reminder_sent_at = t]
                       ELSE expired[o]]
        impacted == { rid \in expired_request_ids :
                        /\ reqs[rid] # NoRequest
                        /\ reqs[rid].status \notin ClosedStatuses
                        /\ reqs[rid].matched_provider = NoProvider }
        has_pending(rid) == OffersWith(reminded, rid, {"pending"}) # {}
        has_accepted(rid) == OffersWith(reminded, rid, {"accepted"}) # {}
        redispatched == { rid \in impacted : ~has_accepted(rid) /\ ~has_pending(rid) }
        dispatched == [rid \in redispatched |->
                         dispatch_next_provider_offer(rid, reqs[rid], reminded, t, s)]
    IN [requests |->
          [rid \in RequestIds |->
             IF rid \notin impacted THEN reqs[rid]
             ELSE IF has_accepted(rid) THEN [reqs[rid] EXCEPT !.status = "pending_customer"]
             ELSE IF has_pending(rid) THEN [reqs[rid] EXCEPT !.status = "pending_provider"]
             ELSE dispatched[rid].request],
        offers |->
          [o \in OfferIds |->
             IF o[1] \in redispatched THEN dispatched[o[1]].offers[o] ELSE reminded[o]]]

(* ------------------------- the view handlers --------------------------- *)
(* Each handler is a function of the tables, the clock and its arguments;  *)
(* it returns the tables it leaves and its response.                       *)
Respond(db, result) == db @@ [result |-> result]

NewRequest(city, district, service_type) ==
    [status |-> "new", city |-> city, district |-> district, service_type |-> service_type,
     matched_provider |-> NoProvider, matched_offer |-> NoOfferId, matched_at |-> Null]

create_request(db, rid, city, district, t, s) ==
    LET d == dispatch_next_provider_offer(rid, NewRequest(city, district, "Tesisat"),
                                          db.offers, t, s)
    IN Respond([db EXCEPT !.requests[rid] = d.request, !.offers = d.offers], d.result)

(* sweep without the expiry UPDATE: it sends the reminders only *)
sweep_reminding_only(db, t, s) ==
    LET reminder_deadline == t + get_offer_reminder_minutes(s)
    IN Respond([db EXCEPT
                  !.offers = [o \in OfferIds |->
                                IF /\ IsPending(db.offers[o])
                                   /\ db.offers[o].expires_at # Null
                                   /\ db.offers[o].expires_at > t
                                   /\ db.offers[o].expires_at <= reminder_deadline
                                   /\ db.offers[o].reminder_sent_at = Null
                                THEN [db.offers[o] EXCEPT !.reminder_sent_at = t]
                                ELSE db.offers[o]]],
               "ok")

(* sweep that deletes a request the dispatcher left without a live offer,   *)
(* as provider_reject_offer does                                           *)
sweep_deleting(db, t, s) ==
    LET swept == refresh_offer_lifecycle(db.requests, db.offers, t, s)
        done == [db EXCEPT !.requests = swept.requests, !.offers = swept.offers]
        dead == { rid \in RequestIds : /\ db.requests[rid] # NoRequest
                                       /\ db.requests[rid].status # "new"
                                       /\ swept.requests[rid].status = "new" }
    IN Respond([done EXCEPT
                  !.requests = [rid \in RequestIds |->
                                  IF rid \in dead THEN NoRequest ELSE done.requests[rid]],
                  !.offers = [o \in OfferIds |->
                                IF o[1] \in dead THEN NoOffer ELSE done.offers[o]]],
               "ok")

(* a sweep that dispatches the requests in status new once more *)
sweep_retrying_new(db, t, s) ==
    LET swept == refresh_offer_lifecycle(db.requests, db.offers, t, s)
        retried(rid) == /\ swept.requests[rid] # NoRequest
                        /\ swept.requests[rid].status = "new"
        d(rid) == dispatch_next_provider_offer(rid, swept.requests[rid], swept.offers, t, s)
    IN Respond([db EXCEPT
                  !.requests = [rid \in RequestIds |->
                                  IF retried(rid) THEN d(rid).request ELSE swept.requests[rid]],
                  !.offers = [o \in OfferIds |->
                                IF retried(o[1]) THEN d(o[1]).offers[o] ELSE swept.offers[o]]],
               "ok")

sweep(db, t, s) ==
    LET swept == refresh_offer_lifecycle(db.requests, db.offers, t, s)
    IN Respond([db EXCEPT !.requests = swept.requests, !.offers = swept.offers], "ok")

(* provider_accept_offer that also calls set_other_pending_offers_expired *)
provider_accept_offer_closing_others(db, p, rid, raw, t, s) ==
    LET oid == <<rid, p>>
        a == accept_body(oid, db.offers[oid], db.requests[rid], db.wallets[p], db.ledger[p],
                         raw, t, s)
    IN IF db.offers[oid] = NoOffer
       THEN Respond(db, "offer-not-found")
       ELSE Respond([db EXCEPT
                       !.offers = [o \in OfferIds |->
                                     IF o = oid THEN a.offer
                                     ELSE IF /\ a.result = "accepted"
                                             /\ o[1] = rid
                                             /\ db.offers[o].status \in {"pending", "accepted"}
                                     THEN [db.offers[o] EXCEPT !.status = "expired",
                                                               !.responded_at = t]
                                     ELSE db.offers[o]],
                       !.requests[rid].status = a.status,
                       !.wallets[p] = a.wallet, !.ledger[p] = a.rows], a.result)

provider_accept_offer(db, p, rid, raw, t, s) ==
    LET oid == <<rid, p>>
        a == accept_body(oid, db.offers[oid], db.requests[rid], db.wallets[p], db.ledger[p],
                         raw, t, s)
    IN IF db.offers[oid] = NoOffer
       THEN Respond(db, "offer-not-found")
       ELSE Respond([db EXCEPT !.offers[oid] = a.offer, !.requests[rid].status = a.status,
                               !.wallets[p] = a.wallet, !.ledger[p] = a.rows], a.result)

(* the request's appointment and messages go with the request *)
DeleteAppointmentAndMessages(db, rid) ==
    [db EXCEPT !.appointments[rid] = NoAppointment, !.messages[rid] = <<>>]

(* service_request.delete(): the offers go with it (on_delete CASCADE) *)
DeleteCascade(db, rid) ==
    DeleteAppointmentAndMessages(
        [db EXCEPT !.requests[rid] = NoRequest,
                   !.offers = [o \in OfferIds |-> IF o[1] = rid THEN NoOffer ELSE db.offers[o]]],
        rid)

(* provider_reject_offer that cancels the request when no tier is left *)
provider_reject_offer_cancelling(db, p, rid, t, s) ==
    LET oid == <<rid, p>>
        rejected == [db.offers EXCEPT ![oid].status = "rejected", ![oid].responded_at = t]
        has_accepted_offer == OffersWith(rejected, rid, {"accepted"}) # {}
        has_pending == OffersWith(rejected, rid, {"pending"}) # {}
        d == dispatch_next_provider_offer(rid, db.requests[rid], rejected, t, s)
    IN IF db.offers[oid].status # "pending"
       THEN Respond(db, "offer-not-found")
       ELSE IF has_pending
       THEN Respond([db EXCEPT !.offers = rejected,
                               !.requests[rid].status =
                                   IF has_accepted_offer THEN "pending_customer" ELSE @],
                    "waiting-providers")
       ELSE IF has_accepted_offer
       THEN Respond([db EXCEPT !.offers = rejected, !.requests[rid].status = "pending_customer"],
                    "waiting-customer")
       ELSE IF d.result = "offers-created"
       THEN Respond([db EXCEPT !.offers = d.offers, !.requests[rid] = d.request], "offers-created")
       ELSE Respond([db EXCEPT !.offers = d.offers, !.requests[rid].status = "cancelled"],
                    "request-cancelled")

(* provider_reject_offer that goes on to the next tier while other offers *)
(* of the request are still pending                                       *)
provider_reject_offer_eager(db, p, rid, t, s) ==
    LET oid == <<rid, p>>
        rejected == [db.offers EXCEPT ![oid].status = "rejected", ![oid].responded_at = t]
        has_accepted_offer == OffersWith(rejected, rid, {"accepted"}) # {}
        d == dispatch_next_provider_offer(rid, db.requests[rid], rejected, t, s)
    IN IF db.offers[oid].status # "pending"
       THEN Respond(db, "offer-not-found")
       ELSE IF has_accepted_offer
       THEN Respond([db EXCEPT !.offers = rejected, !.requests[rid].status = "pending_customer"],
                    "waiting-customer")
       ELSE IF d.result = "offers-created"
       THEN Respond([db EXCEPT !.offers = d.offers, !.requests[rid] = d.request], "offers-created")
       ELSE Respond(DeleteCascade([db EXCEPT !.offers = d.offers], rid), "request-deleted")

provider_reject_offer(db, p, rid, t, s) ==
    LET oid == <<rid, p>>
        rejected == [db.offers EXCEPT ![oid].status = "rejected", ![oid].responded_at = t]
        has_accepted_offer == OffersWith(rejected, rid, {"accepted"}) # {}
        has_pending == OffersWith(rejected, rid, {"pending"}) # {}
        d == dispatch_next_provider_offer(rid, db.requests[rid], rejected, t, s)
    IN IF db.offers[oid].status # "pending"
       THEN Respond(db, "offer-not-found")
       ELSE IF has_pending
       THEN Respond([db EXCEPT !.offers = rejected,
                               !.requests[rid].status =
                                   IF has_accepted_offer THEN "pending_customer" ELSE @],
                    "waiting-providers")
       ELSE IF has_accepted_offer
       THEN Respond([db EXCEPT !.offers = rejected, !.requests[rid].status = "pending_customer"],
                    "waiting-customer")
       ELSE IF d.result = "offers-created"
       THEN Respond([db EXCEPT !.offers = d.offers, !.requests[rid] = d.request], "offers-created")
       ELSE Respond(DeleteCascade([db EXCEPT !.offers = d.offers], rid), "request-deleted")

Selectable(service_request) ==
    /\ service_request.status \in {"pending_provider", "pending_customer"}
    /\ service_request.matched_provider = NoProvider

(* the offer row the locked query of select_provider_offer returns *)
selected_offer_exists(offs, rid, oid) ==
    /\ oid \in OfferIds
    /\ oid[1] = rid
    /\ offs[oid].status = "accepted"

(* select_writes that gives the fee back to the providers whose accepted *)
(* offer it expires                                                     *)
select_writes_refunding(db, rid, service_request, oid, t) ==
    LET closed(p) == <<rid, p>> # oid /\ db.offers[<<rid, p>>].status = "accepted"
    IN [db EXCEPT
          !.requests[rid] = [service_request EXCEPT !.matched_provider = oid[2], !.matched_offer = oid,
                                                    !.matched_at = t, !.status = "matched"],
          !.offers = [o \in OfferIds |->
                        IF o[1] = rid /\ o # oid /\ db.offers[o].status \in {"pending", "accepted"}
                        THEN [db.offers[o] EXCEPT !.status = "expired", !.responded_at = t]
                        ELSE db.offers[o]],
          !.wallets = [p \in Providers |->
                         IF closed(p) THEN [balance |-> db.wallets[p].balance + 1]
                         ELSE db.wallets[p]],
          !.ledger = [p \in Providers |->
                        IF closed(p)
                        THEN Append(db.ledger[p],
                                    LedgerRow("adjustment", 1, db.wallets[p].balance + 1, <<rid, p>>))
                        ELSE db.ledger[p]]]

(* select_writes closing the pending offers only: the other quotes stay accepted *)
select_writes_pending_only(db, rid, service_request, oid, t) ==
    [db EXCEPT
       !.requests[rid] = [service_request EXCEPT !.matched_provider = oid[2], !.matched_offer = oid,
                                                 !.matched_at = t, !.status = "matched"],
       !.offers = [o \in OfferIds |->
                     IF o[1] = rid /\ o # oid /\ db.offers[o].status = "pending"
                     THEN [db.offers[o] EXCEPT !.status = "expired", !.responded_at = t]
                     ELSE db.offers[o]]]

(* select_writes without the exclude(id=selected_offer.id): the chosen offer expires too *)
select_writes_no_exclude(db, rid, service_request, oid, t) ==
    [db EXCEPT
       !.requests[rid] = [service_request EXCEPT !.matched_provider = oid[2], !.matched_offer = oid,
                                                 !.matched_at = t, !.status = "matched"],
       !.offers = [o \in OfferIds |->
                     IF o[1] = rid /\ db.offers[o].status \in {"pending", "accepted"}
                     THEN [db.offers[o] EXCEPT !.status = "expired", !.responded_at = t]
                     ELSE db.offers[o]]]

(* the writes of select_provider_offer once the request and the offer are locked *)
select_writes(db, rid, service_request, oid, t) ==
    [db EXCEPT
       !.requests[rid] = [service_request EXCEPT !.matched_provider = oid[2], !.matched_offer = oid,
                                                 !.matched_at = t, !.status = "matched"],
       !.offers = [o \in OfferIds |->
                     IF o[1] = rid /\ o # oid /\ db.offers[o].status \in {"pending", "accepted"}
                     THEN [db.offers[o] EXCEPT !.status = "expired", !.responded_at = t]
                     ELSE db.offers[o]]]

select_provider_offer(db, rid, oid, t) ==
    IF db.requests[rid] = NoRequest
    THEN Respond(db, "not-found")
    ELSE IF ~Selectable(db.requests[rid])
    THEN Respond(db, "not-selectable")
    ELSE IF ~selected_offer_exists(db.offers, rid, oid)
    THEN Respond(db, "offer-not-selectable")
    ELSE Respond(select_writes(db, rid, db.requests[rid], oid, t), "matched")

(* cancel_request without the check of status and matched_provider *)
cancel_request_unguarded(db, rid, t) ==
    IF db.requests[rid] = NoRequest
    THEN Respond(db, "not-found")
    ELSE Respond([db EXCEPT
                    !.offers = [o \in OfferIds |->
                                  IF o[1] = rid /\ db.offers[o].status \in {"pending", "accepted"}
                                  THEN [db.offers[o] EXCEPT !.status = "expired", !.responded_at = t]
                                  ELSE db.offers[o]],
                    !.requests[rid] = Unmatch(db.requests[rid], "cancelled")],
                 "cancelled")

cancel_request(db, rid, t) ==
    IF db.requests[rid] = NoRequest
    THEN Respond(db, "not-found")
    ELSE IF \/ db.requests[rid].status \notin {"new", "pending_provider", "pending_customer"}
            \/ db.requests[rid].matched_provider # NoProvider
    THEN Respond(db, "not-cancellable")
    ELSE Respond([db EXCEPT
                    !.offers = [o \in OfferIds |->
                                  IF o[1] = rid /\ db.offers[o].status \in {"pending", "accepted"}
                                  THEN [db.offers[o] EXCEPT !.status = "expired", !.responded_at = t]
                                  ELSE db.offers[o]],
                    !.requests[rid] = Unmatch(db.requests[rid], "cancelled")],
                 "cancelled")

delete_cancelled_request(db, rid) ==
    IF db.requests[rid] = NoRequest
    THEN Respond(db, "not-found")
    ELSE IF db.requests[rid].status # "cancelled"
    THEN Respond(db, "not-cancelled")
    ELSE Respond(DeleteCascade(db, rid), "deleted")

(* GET provider_packages: the wallet is created on first touch *)
provider_packages_get(db, p, s) ==
    LET wallet == get_or_create_provider_wallet(db.wallets[p], db.ledger[p], s)
    IN Respond([db EXCEPT !.wallets[p] = [balance |-> wallet.balance], !.ledger[p] = wallet.rows],
               "ok")

(* apply_wallet_transaction called as POST provider_packages calls it *)
wallet_transaction(db, p, amount, type, s) ==
    LET a == apply_wallet_transaction(db.wallets[p], db.ledger[p], amount, type, NoOfferId, s)
    IN Respond([db EXCEPT !.wallets[p] = [balance |-> a.balance], !.ledger[p] = a.rows],
               IF a.ok THEN "ok" ELSE "failed")

purge_request_messages(db, rid) == [db EXCEPT !.messages[rid] = <<>>]

(* complete_request without the check of the appointment's time *)
complete_request_early(db, rid, t) ==
    LET service_request == db.requests[rid]
        appointment == db.appointments[rid]
        completed == [db EXCEPT !.requests[rid].status = "completed",
                                !.appointments[rid] =
                                    IF appointment.status \in {"pending", "pending_customer", "confirmed"}
                                    THEN [appointment EXCEPT !.status = "completed"]
                                    ELSE appointment]
    IN IF service_request = NoRequest
       THEN Respond(db, "not-found")
       ELSE IF service_request.status # "matched"
       THEN Respond(db, "not-matched")
       ELSE IF appointment.status \in {"pending", "pending_customer"}
       THEN Respond(db, "appointment-open")
       ELSE Respond(purge_request_messages(completed, rid), "completed")

complete_request(db, rid, t) ==
    LET service_request == db.requests[rid]
        appointment == db.appointments[rid]
        completed == [db EXCEPT !.requests[rid].status = "completed",
                                !.appointments[rid] =
                                    IF appointment.status \in {"pending", "pending_customer", "confirmed"}
                                    THEN [appointment EXCEPT !.status = "completed"]
                                    ELSE appointment]
    IN IF service_request = NoRequest
       THEN Respond(db, "not-found")
       ELSE IF service_request.status # "matched"
       THEN Respond(db, "not-matched")
       ELSE IF appointment.status \in {"pending", "pending_customer"}
       THEN Respond(db, "appointment-open")
       ELSE IF appointment.status = "confirmed" /\ appointment.scheduled_for > t
       THEN Respond(db, "appointment-in-future")
       ELSE Respond(purge_request_messages(completed, rid), "completed")

Notes == {"not"}

(* AppointmentCreateForm.clean_scheduled_for *)
clean_scheduled_for(scheduled_for, t) == scheduled_for > t

(* create_appointment that keeps the status of the appointment it reschedules *)
create_appointment_keeping_status(db, rid, scheduled_for, customer_note, t) ==
    LET service_request == db.requests[rid]
        existing == db.appointments[rid]
    IN IF service_request = NoRequest
       THEN Respond(db, "not-found")
       ELSE IF service_request.status # "matched" \/ service_request.matched_provider = NoProvider
       THEN Respond(db, "not-matched")
       ELSE IF ~clean_scheduled_for(scheduled_for, t)
       THEN Respond(db, "form-invalid")
       ELSE IF existing.status = "completed"
       THEN Respond(db, "appointment-completed")
       ELSE Respond([db EXCEPT !.appointments[rid] =
                        [status |-> IF existing = NoAppointment THEN "pending" ELSE existing.status,
                         provider |-> service_request.matched_provider,
                         scheduled_for |-> scheduled_for, customer_note |-> customer_note,
                         provider_note |-> ""]],
                    IF existing = NoAppointment THEN "created" ELSE "updated")

create_appointment(db, rid, scheduled_for, customer_note, t) ==
    LET service_request == db.requests[rid]
        existing == db.appointments[rid]
    IN IF service_request = NoRequest
       THEN Respond(db, "not-found")
       ELSE IF service_request.status # "matched" \/ service_request.matched_provider = NoProvider
       THEN Respond(db, "not-matched")
       ELSE IF ~clean_scheduled_for(scheduled_for, t)
       THEN Respond(db, "form-invalid")
       ELSE IF existing.status = "completed"
       THEN Respond(db, "appointment-completed")
       ELSE Respond([db EXCEPT !.appointments[rid] =
                        [status |-> "pending", provider |-> service_request.matched_provider,
                         scheduled_for |-> scheduled_for, customer_note |-> customer_note,
                         provider_note |-> ""]],
                    IF existing = NoAppointment THEN "created" ELSE "updated")

(* cancel_appointment without the check of the appointment's status *)
cancel_appointment_unguarded(db, rid) ==
    IF db.requests[rid] = NoRequest \/ db.appointments[rid] = NoAppointment
    THEN Respond(db, "not-found")
    ELSE Respond([db EXCEPT !.appointments[rid].status = "cancelled"], "cancelled")

cancel_appointment(db, rid) ==
    IF db.requests[rid] = NoRequest \/ db.appointments[rid] = NoAppointment
    THEN Respond(db, "not-found")
    ELSE IF db.appointments[rid].status \notin {"pending", "pending_customer", "confirmed"}
    THEN Respond(db, "not-cancellable")
    ELSE Respond([db EXCEPT !.appointments[rid].status = "cancelled"], "cancelled")

(* customer_confirm_appointment that also confirms an appointment the *)
(* provider has not approved yet                                      *)
customer_confirm_appointment_unapproved(db, rid) ==
    IF db.requests[rid] = NoRequest \/ db.appointments[rid] = NoAppointment
    THEN Respond(db, "not-found")
    ELSE IF db.appointments[rid].status \notin {"pending", "pending_customer"}
    THEN Respond(db, "not-waiting-customer")
    ELSE Respond([db EXCEPT !.appointments[rid].status = "confirmed"], "confirmed")

customer_confirm_appointment(db, rid) ==
    IF db.requests[rid] = NoRequest \/ db.appointments[rid] = NoAppointment
    THEN Respond(db, "not-found")
    ELSE IF db.appointments[rid].status # "pending_customer"
    THEN Respond(db, "not-waiting-customer")
    ELSE Respond([db EXCEPT !.appointments[rid].status = "confirmed"], "confirmed")

(* get_object_or_404(ServiceAppointment, id=appointment_id, provider=provider) *)
appointment_of(db, rid, p) ==
    /\ db.appointments[rid] # NoAppointment
    /\ db.appointments[rid].provider = p

provider_confirm_appointment(db, rid, p, provider_note) ==
    IF ~appointment_of(db, rid, p)
    THEN Respond(db, "not-found")
    ELSE IF db.appointments[rid].status # "pending"
    THEN Respond(db, "not-open")
    ELSE Respond([db EXCEPT !.appointments[rid].status = "pending_customer",
                            !.appointments[rid].provider_note = provider_note], "confirmed")

provider_reject_appointment(db, rid, p, provider_note) ==
    IF ~appointment_of(db, rid, p)
    THEN Respond(db, "not-found")
    ELSE IF db.appointments[rid].status # "pending"
    THEN Respond(db, "not-open")
    ELSE Respond([db EXCEPT !.appointments[rid].status = "rejected",
                            !.appointments[rid].provider_note = provider_note], "rejected")

(* provider_complete_appointment that keeps the message thread *)
provider_complete_appointment_keeping_thread(db, rid, p) ==
    LET service_request == db.requests[rid]
        done == [db EXCEPT !.appointments[rid].status = "completed"]
        saved == IF service_request.status = "completed"
                 THEN done
                 ELSE [done EXCEPT !.requests[rid].status = "completed",
                                   !.requests[rid].matched_provider =
                                       IF @ = NoProvider THEN p ELSE @]
    IN IF ~appointment_of(db, rid, p)
       THEN Respond(db, "not-found")
       ELSE IF db.appointments[rid].status # "confirmed"
       THEN Respond(db, "not-confirmed")
       ELSE Respond(saved, "completed")

provider_complete_appointment(db, rid, p) ==
    LET service_request == db.requests[rid]
        done == [db EXCEPT !.appointments[rid].status = "completed"]
        saved == IF service_request.status = "completed"
                 THEN done
                 ELSE [done EXCEPT !.requests[rid].status = "completed",
                                   !.requests[rid].matched_provider =
                                       IF @ = NoProvider THEN p ELSE @]
    IN IF ~appointment_of(db, rid, p)
       THEN Respond(db, "not-found")
       ELSE IF db.appointments[rid].status # "confirmed"
       THEN Respond(db, "not-confirmed")
       ELSE Respond(purge_request_messages(saved, rid), "completed")

Roles == {"customer", "provider"}

(* POST request_messages; p is the provider of the sender, NoProvider for  *)
(* the customer                                                            *)
(* request_messages that stores a message whatever the request's status *)
request_messages_any_status(db, rid, p) ==
    LET service_request == db.requests[rid]
        viewer_role == IF p # NoProvider THEN "provider" ELSE "customer"
    IN IF service_request = NoRequest
       THEN Respond(db, "not-found")
       ELSE IF p # NoProvider /\ service_request.matched_provider # p
       THEN Respond(db, "no-access")
       ELSE Respond([db EXCEPT !.messages[rid] = Append(@, viewer_role)], "sent")

request_messages(db, rid, p) ==
    LET service_request == db.requests[rid]
        viewer_role == IF p # NoProvider THEN "provider" ELSE "customer"
    IN IF service_request = NoRequest
       THEN Respond(db, "not-found")
       ELSE IF p # NoProvider /\ service_request.matched_provider # p
       THEN Respond(db, "no-access")
       ELSE IF service_request.status # "matched"
       THEN Respond(db, "closed")
       ELSE Respond([db EXCEPT !.messages[rid] = Append(@, viewer_role)], "sent")

(* ------------------------------ actions -------------------------------- *)
Commit(r) ==
    /\ requests' = r.requests
    /\ offers' = r.offers
    /\ wallets' = r.wallets
    /\ ledger' = r.ledger
    /\ appointments' = r.appointments
    /\ messages' = r.messages

Tick(limit) ==
    /\ now < limit
    /\ now' = now + 1
    /\ UNCHANGED <<settings, available, rating, requests, next_id, offers, wallets, ledger, appointments, messages, tx>>

CreateRequest(city, district, limit) ==
    /\ next_id < limit
    /\ next_id' = next_id + 1
    /\ Commit(create_request(Db, next_id + 1, city, district, now, settings))
    /\ UNCHANGED <<settings, available, rating, now, tx>>

Sweep ==
    /\ Commit(sweep(Db, now, settings))
    /\ UNCHANGED <<settings, available, rating, now, next_id, tx>>

ProviderAcceptOffer(p, rid, raw) ==
    /\ offers[<<rid, p>>] # NoOffer
    /\ Commit(provider_accept_offer(Db, p, rid, raw, now, settings))
    /\ UNCHANGED <<settings, available, rating, now, next_id, tx>>

ProviderRejectOffer(p, rid) ==
    /\ offers[<<rid, p>>] # NoOffer
    /\ Commit(provider_reject_offer(Db, p, rid, now, settings))
    /\ UNCHANGED <<settings, available, rating, now, next_id, tx>>

SelectProviderOffer(rid, oid) ==
    /\ requests[rid] # NoRequest
    /\ Commit(select_provider_offer(Db, rid, oid, now))
    /\ UNCHANGED <<settings, available, rating, now, next_id, tx>>

CancelRequest(rid) ==
    /\ requests[rid] # NoRequest
    /\ Commit(cancel_request(Db, rid, now))
    /\ UNCHANGED <<settings, available, rating, now, next_id, tx>>

DeleteCancelledRequest(rid) ==
    /\ requests[rid] # NoRequest
    /\ Commit(delete_cancelled_request(Db, rid))
    /\ UNCHANGED <<settings, available, rating, now, next_id, tx>>

ProviderPackagesGet(p) ==
    /\ Commit(provider_packages_get(Db, p, settings))
    /\ UNCHANGED <<settings, available, rating, now, next_id, tx>>

ProviderPackagesPost(p, credits) ==
    /\ Len(ledger[p]) < MaxLedger
    /\ Commit(wallet_transaction(Db, p, credits, "package_purchase", settings))
    /\ UNCHANGED <<settings, available, rating, now, next_id, tx>>

WalletAdjustment(p, amount) ==
    /\ Len(ledger[p]) < MaxLedger
    /\ Commit(wallet_transaction(Db, p, amount, "adjustment", settings))
    /\ UNCHANGED <<settings, available, rating, now, next_id, tx>>

CompleteRequest(rid) ==
    /\ requests[rid] # NoRequest
    /\ Commit(complete_request(Db, rid, now))
    /\ UNCHANGED <<settings, available, rating, now, next_id, tx>>

CreateAppointment(rid, scheduled_for, customer_note) ==
    /\ requests[rid] # NoRequest
    /\ Commit(create_appointment(Db, rid, scheduled_for, customer_note, now))
    /\ UNCHANGED <<settings, available, rating, now, next_id, tx>>

CancelAppointment(rid) ==
    /\ appointments[rid] # NoAppointment
    /\ Commit(cancel_appointment(Db, rid))
    /\ UNCHANGED <<settings, available, rating, now, next_id, tx>>

CustomerConfirmAppointment(rid) ==
    /\ appointments[rid] # NoAppointment
    /\ Commit(customer_confirm_appointment(Db, rid))
    /\ UNCHANGED <<settings, available, rating, now, next_id, tx>>

ProviderConfirmAppointment(rid, p, provider_note) ==
    /\ appointments[rid] # NoAppointment
    /\ Commit(provider_confirm_appointment(Db, rid, p, provider_note))
    /\ UNCHANGED <<settings, available, rating, now, next_id, tx>>

ProviderRejectAppointment(rid, p, provider_note) ==
    /\ appointments[rid] # NoAppointment
    /\ Commit(provider_reject_appointment(Db, rid, p, provider_note))
    /\ UNCHANGED <<settings, available, rating, now, next_id, tx>>

ProviderCompleteAppointment(rid, p) ==
    /\ appointments[rid] # NoAppointment
    /\ Commit(provider_complete_appointment(Db, rid, p))
    /\ UNCHANGED <<settings, available, rating, now, next_id, tx>>

RequestMessages(rid, p) ==
    /\ requests[rid] # NoRequest
    /\ Len(messages[rid]) < MaxMessages
    /\ Commit(request_messages(Db, rid, p))
    /\ UNCHANGED <<settings, available, rating, now, next_id, tx>>

Next ==
    \/ Tick(MaxTime)
    \/ \E city \in Cities, district \in Districts : CreateRequest(city, district, MaxRequests)
    \/ Sweep
    \/ \E p \in Providers, rid \in RequestIds, raw \in QuoteInputs : ProviderAcceptOffer(p, rid, raw)
    \/ \E p \in Providers, rid \in RequestIds : ProviderRejectOffer(p, rid)
    \/ \E rid \in RequestIds, oid \in OfferIds : SelectProviderOffer(rid, oid)
    \/ \E rid \in RequestIds : CancelRequest(rid)
    \/ \E rid \in RequestIds : DeleteCancelledRequest(rid)
    \/ \E rid \in RequestIds : CompleteRequest(rid)
    \/ \E rid \in RequestIds, scheduled_for \in 0..(MaxTime + 1), note \in Notes :
           CreateAppointment(rid, scheduled_for, note)
    \/ \E rid \in RequestIds : CancelAppointment(rid)
    \/ \E rid \in RequestIds : CustomerConfirmAppointment(rid)
    \/ \E rid \in RequestIds, p \in Providers, note \in Notes : ProviderConfirmAppointment(rid, p, note)
    \/ \E rid \in RequestIds, p \in Providers, note \in Notes : ProviderRejectAppointment(rid, p, note)
    \/ \E rid \in RequestIds, p \in Providers : ProviderCompleteAppointment(rid, p)
    \/ \E rid \in RequestIds, p \in Providers \cup {NoProvider} : RequestMessages(rid, p)

Spec == Init /\ [][Next]_vars

(* the matching workflow alone: from the creation of a request to its match, *)
(* cancellation or deletion                                                  *)
MatchNext ==
    \/ Tick(MaxTime)
    \/ \E city \in Cities, district \in Districts : CreateRequest(city, district, MaxRequests)
    \/ Sweep
    \/ \E p \in Providers, rid \in RequestIds, raw \in QuoteInputs : ProviderAcceptOffer(p, rid, raw)
    \/ \E p \in Providers, rid \in RequestIds : ProviderRejectOffer(p, rid)
    \/ \E rid \in RequestIds, oid \in OfferIds : SelectProviderOffer(rid, oid)
    \/ \E rid \in RequestIds : CancelRequest(rid)
    \/ \E rid \in RequestIds : DeleteCancelledRequest(rid)

MatchSpec == Init /\ [][MatchNext]_vars

(* the providers that open the package page; the others touch their wallet *)
(* by accepting offers only                                                *)
WalletProviders == {"p1"}

(* the wallet ledger: every handler that reads or writes a wallet, on the  *)
(* offers that requests in Lefkosa create                                  *)
WalletNext ==
    \/ \E district \in Districts : CreateRequest("Lefkosa", district, MaxWalletRequests)
    \/ \E p \in Providers, rid \in RequestIds, raw \in QuoteInputs : ProviderAcceptOffer(p, rid, raw)
    \/ \E rid \in RequestIds, oid \in OfferIds : SelectProviderOffer(rid, oid)
    \/ \E rid \in RequestIds : CancelRequest(rid)
    \/ \E p \in WalletProviders : ProviderPackagesGet(p)
    \/ \E p \in WalletProviders, credits \in PackageCredits : ProviderPackagesPost(p, credits)
    \/ \E p \in WalletProviders, amount \in WalletAmounts : WalletAdjustment(p, amount)

WalletSpec == Init /\ [][WalletNext]_vars

(* ---------------------- concurrent transactions ------------------------ *)
(* A worker runs one transaction.atomic() block: it takes the row locks of *)
(* its select_for_update queries one at a time, keeps the rows it read and *)
(* writes when the block ends; a lock is held until then.                  *)
OfferRow(oid) == <<"offer", oid>>
RequestRow(rid) == <<"request", rid>>
WalletRow(p) == <<"wallet", p>>

(* select_for_update: the row is free for worker w *)
Free(w, row) == \A v \in Workers \ {w} : row \notin tx[v].locks

(* worker w goes on to pc holding row as well, with the rows it read *)
Step(w, pc, row, read) == [pc |-> pc, locks |-> tx[w].locks \cup {row}] @@ read @@ tx[w]

Finish(w) == tx' = [tx EXCEPT ![w] = Idle]

(* provider_accept_offer: the offer row, the request row, the wallet row *)
AcceptLockOffer(w, p, rid, raw) ==
    /\ tx[w] = Idle
    /\ offers[<<rid, p>>] # NoOffer
    /\ Free(w, OfferRow(<<rid, p>>))
    /\ tx' = [tx EXCEPT ![w] = Step(w, "accept_request", OfferRow(<<rid, p>>),
                                    [p |-> p, rid |-> rid, raw |-> raw,
                                     offer |-> offers[<<rid, p>>]])]
    /\ UNCHANGED <<settings, available, rating, now, requests, next_id, offers, wallets, ledger, appointments, messages>>

AcceptLockRequest(w) ==
    /\ tx[w].pc = "accept_request"
    /\ Free(w, RequestRow(tx[w].rid))
    /\ tx' = [tx EXCEPT ![w] = Step(w, "accept_body", RequestRow(tx[w].rid),
                                    [request |-> requests[tx[w].rid]])]
    /\ UNCHANGED <<settings, available, rating, now, requests, next_id, offers, wallets, ledger, appointments, messages>>

(* a check fails: the block ends, with the offer expired if the request is closed *)
AcceptReturn(w) ==
    /\ tx[w].pc = "accept_body"
    /\ LET checked == accept_checks(tx[w].offer, tx[w].request, tx[w].raw)
           oid == <<tx[w].rid, tx[w].p>>
       IN /\ checked # "ok"
          /\ offers' = IF checked = "request-not-open"
                       THEN [offers EXCEPT ![oid].status = "expired", ![oid].responded_at = now]
                       ELSE offers
    /\ Finish(w)
    /\ UNCHANGED <<settings, available, rating, now, requests, next_id, wallets, ledger, appointments, messages>>

AcceptLockWallet(w) ==
    /\ tx[w].pc = "accept_body"
    /\ accept_checks(tx[w].offer, tx[w].request, tx[w].raw) = "ok"
    /\ Free(w, WalletRow(tx[w].p))
    /\ tx' = [tx EXCEPT ![w] = Step(w, "accept_commit", WalletRow(tx[w].p),
                                    [wallet |-> wallets[tx[w].p]])]
    /\ UNCHANGED <<settings, available, rating, now, requests, next_id, offers, wallets, ledger, appointments, messages>>

AcceptCommit(w) ==
    /\ tx[w].pc = "accept_commit"
    /\ LET p == tx[w].p
           rid == tx[w].rid
           oid == <<rid, p>>
           a == accept_body(oid, tx[w].offer, tx[w].request, tx[w].wallet, ledger[p],
                            tx[w].raw, now, settings)
       IN /\ wallets' = [wallets EXCEPT ![p] = a.wallet]
          /\ ledger' = [ledger EXCEPT ![p] = a.rows]
          /\ IF a.result = "accepted"
             THEN /\ offers' = [offers EXCEPT ![oid].status = a.offer.status,
                                              ![oid].responded_at = a.offer.responded_at,
                                              ![oid].quote_amount = a.offer.quote_amount]
                  /\ requests' = [requests EXCEPT ![rid].status = a.status]
             ELSE UNCHANGED <<offers, requests>>
    /\ Finish(w)
    /\ UNCHANGED <<settings, available, rating, now, next_id, appointments, messages>>

(* select_provider_offer: the check before the block, the request row,    *)
(* the check again, the chosen offer row, the other offers' rows          *)
SelectBegin(w, rid, oid) ==
    /\ tx[w] = Idle
    /\ requests[rid] # NoRequest
    /\ Selectable(requests[rid])
    /\ tx' = [tx EXCEPT ![w] = [pc |-> "select_request", locks |-> {}, rid |-> rid, oid |-> oid]]
    /\ UNCHANGED <<settings, available, rating, now, requests, next_id, offers, wallets, ledger, appointments, messages>>

(* SelectLockRequest without the second look at the request's status *)
SelectLockRequest_no_recheck(w) ==
    /\ tx[w].pc = "select_request"
    /\ Free(w, RequestRow(tx[w].rid))
    /\ tx' = [tx EXCEPT ![w] = Step(w, "select_offer", RequestRow(tx[w].rid),
                                    [request |-> requests[tx[w].rid]])]
    /\ UNCHANGED <<settings, available, rating, now, requests, next_id, offers, wallets, ledger, appointments, messages>>

SelectLockRequest(w) ==
    /\ tx[w].pc = "select_request"
    /\ Free(w, RequestRow(tx[w].rid))
    /\ tx' = [tx EXCEPT ![w] =
                IF requests[tx[w].rid] # NoRequest /\ Selectable(requests[tx[w].rid])
                THEN Step(w, "select_offer", RequestRow(tx[w].rid),
                          [request |-> requests[tx[w].rid]])
                ELSE Idle]
    /\ UNCHANGED <<settings, available, rating, now, requests, next_id, offers, wallets, ledger, appointments, messages>>

SelectLockOffer(w) ==
    /\ tx[w].pc = "select_offer"
    /\ IF ~selected_offer_exists(offers, tx[w].rid, tx[w].oid)
       THEN Finish(w)
       ELSE /\ Free(w, OfferRow(tx[w].oid))
            /\ tx' = [tx EXCEPT ![w] = Step(w, "select_commit", OfferRow(tx[w].oid),
                                            [offer |-> offers[tx[w].oid]])]
    /\ UNCHANGED <<settings, available, rating, now, requests, next_id, offers, wallets, ledger, appointments, messages>>

SelectCommit(w) ==
    /\ tx[w].pc = "select_commit"
    /\ \A o \in OfferIds :
          (o[1] = tx[w].rid /\ o # tx[w].oid /\ offers[o].status \in {"pending", "accepted"})
             => Free(w, OfferRow(o))
    /\ Commit(select_writes(Db, tx[w].rid, tx[w].request, tx[w].oid, now))
    /\ Finish(w)
    /\ UNCHANGED <<settings, available, rating, now, next_id>>

(* apply_wallet_transaction: the wallet row *)
WalletLock(w, p, amount) ==
    /\ tx[w] = Idle
    /\ Len(ledger[p]) < MaxLedger
    /\ Free(w, WalletRow(p))
    /\ tx' = [tx EXCEPT ![w] = Step(w, "wallet_commit", WalletRow(p),
                                    [p |-> p, amount |-> amount, wallet |-> wallets[p]])]
    /\ UNCHANGED <<settings, available, rating, now, requests, next_id, offers, wallets, ledger, appointments, messages>>

WalletCommit(w) ==
    /\ tx[w].pc = "wallet_commit"
    /\ LET p == tx[w].p
           a == apply_wallet_transaction(tx[w].wallet, ledger[p], tx[w].amount,
                                         IF tx[w].amount \in PackageCredits
                                         THEN "package_purchase" ELSE "adjustment",
                                         NoOfferId, settings)
       IN /\ wallets' = [wallets EXCEPT ![p] = [balance |-> a.balance]]
          /\ ledger' = [ledger EXCEPT ![p] = a.rows]
    /\ Finish(w)
    /\ UNCHANGED <<settings, available, rating, now, requests, next_id, offers, appointments, messages>>

(* the rows worker w's next statement locks *)
Wants(w) ==
    IF tx[w].pc \in {"accept_request", "select_request"} THEN {RequestRow(tx[w].rid)}
    ELSE IF tx[w].pc = "accept_body"
    THEN IF accept_checks(tx[w].offer, tx[w].request, tx[w].raw) = "ok"
         THEN {WalletRow(tx[w].p)} ELSE {}
    ELSE IF tx[w].pc = "select_offer"
    THEN IF selected_offer_exists(offers, tx[w].rid, tx[w].oid)
         THEN {OfferRow(tx[w].oid)} ELSE {}
    ELSE IF tx[w].pc = "select_commit"
    THEN {OfferRow(o) : o \in {o \in OfferIds : /\ o[1] = tx[w].rid
                                                /\ o # tx[w].oid
                                                /\ offers[o].status \in {"pending", "accepted"}}}
    ELSE {}

(* two blocks wait for each other's rows: the database ends one of them *)
DeadlockAbort(w) ==
    /\ \E v \in Workers \ {w} :
          /\ Wants(w) \cap tx[v].locks # {}
          /\ Wants(v) \cap tx[w].locks # {}
    /\ Finish(w)
    /\ UNCHANGED <<settings, available, rating, now, requests, next_id, offers, wallets, ledger, appointments, messages>>

ConcCreateRequest == CreateRequest("Lefkosa", ANY_DISTRICT_VALUE, MaxConcRequests)

ConcNext ==
    \/ ConcCreateRequest
    \/ Tick(MaxConcTime)
    \/ \E w \in Workers, p \in Providers, rid \in RequestIds, raw \in ConcQuoteInputs :
          AcceptLockOffer(w, p, rid, raw)
    \/ \E w \in Workers : AcceptLockRequest(w)
    \/ \E w \in Workers : AcceptReturn(w)
    \/ \E w \in Workers : AcceptLockWallet(w)
    \/ \E w \in Workers : AcceptCommit(w)
    \/ \E w \in Workers, rid \in RequestIds, oid \in OfferIds : SelectBegin(w, rid, oid)
    \/ \E w \in Workers : SelectLockRequest(w)
    \/ \E w \in Workers : SelectLockOffer(w)
    \/ \E w \in Workers : SelectCommit(w)
    \/ \E w \in Workers, p \in WalletProviders, amount \in PackageCredits \cup WalletAmounts :
          WalletLock(w, p, amount)
    \/ \E w \in Workers : WalletCommit(w)
    \/ \E w \in Workers : DeadlockAbort(w)

ConcSpec == Init /\ [][ConcNext]_vars

(* one provider's concurrent accepts, purchases and adjustments: the same *)
(* offer twice, or its offers of two requests                             *)
AcceptNext ==
    \/ CreateRequest("Lefkosa", ANY_DISTRICT_VALUE, MaxWalletRequests)
    \/ \E w \in Workers, p \in WalletProviders, rid \in RequestIds, raw \in ConcQuoteInputs :
          AcceptLockOffer(w, p, rid, raw)
    \/ \E w \in Workers : AcceptLockRequest(w)
    \/ \E w \in Workers : AcceptReturn(w)
    \/ \E w \in Workers : AcceptLockWallet(w)
    \/ \E w \in Workers : AcceptCommit(w)
    \/ \E w \in Workers, p \in WalletProviders, amount \in PackageCredits \cup WalletAmounts :
          WalletLock(w, p, amount)
    \/ \E w \in Workers : WalletCommit(w)

AcceptSpec == Init /\ [][AcceptNext]_vars

(* ============================== properties ============================= *)
TransactionTypes(p) == {ledger[p][i].transaction_type : i \in DOMAIN ledger[p]}

(* C1: after any sequence of wallet operations (lazy creation with the    *)
(* welcome grant, package purchase, adjustment, quote-fee debit), the     *)
(* amounts of the ledger rows of every provider that has a wallet add up  *)
(* to the wallet's balance.                                               *)
C1_LedgerSumIsBalance ==
    \A p \in Providers :
       wallets[p] # NoWallet => SumAmounts(ledger[p]) = wallets[p].balance

(* a wallet that has seen a welcome grant, a purchase and a quote fee *)
C1_Witness ==
    \E p \in Providers :
       /\ wallets[p] # NoWallet
       /\ {"welcome", "package_purchase", "quote_fee"} \subseteq TransactionTypes(p)

(* C2: under every interleaving of accepts, package purchases and wallet  *)
(* transactions with negative amounts, no wallet has a balance below zero *)
C2_BalanceNeverNegative ==
    \A p \in Providers : wallets[p] # NoWallet => wallets[p].balance >= 0

(* a wallet debited down to zero while another block is about to debit it *)
C2_Witness ==
    \E p \in Providers, w \in Workers :
       /\ wallets[p] # NoWallet
       /\ wallets[p].balance = 0
       /\ ledger[p] # <<>>
       /\ ledger[p][Len(ledger[p])].amount < 0
       /\ WalletRow(p) \in tx[w].locks
       /\ tx[w].pc \in {"accept_commit", "wallet_commit"}


(* C3: a successful select_provider_offer leaves the chosen offer         *)
(* accepted and recorded as matched_offer, sets matched_provider to the   *)
(* offer's provider and the status to matched, turns every other pending  *)
(* or accepted offer of the request to expired, and leaves the rejected   *)
(* and expired ones as they were.                                         *)
C3_SelectPostcondition ==
    [][\A rid \in RequestIds, oid \in OfferIds :
         (/\ requests[rid] # NoRequest
          /\ Selectable(requests[rid])
          /\ selected_offer_exists(offers, rid, oid)
          /\ SelectProviderOffer(rid, oid))
         => /\ offers'[oid] = offers[oid]
            /\ offers'[oid].status = "accepted"
            /\ requests'[rid].matched_offer = oid
            /\ requests'[rid].matched_provider = oid[2]
            /\ requests'[rid].matched_at = now
            /\ requests'[rid].status = "matched"
            /\ \A o \in OfferIds :
                  o # oid =>
                     IF o[1] = rid /\ offers[o].status \in {"pending", "accepted"}
                     THEN offers'[o].status = "expired"
                     ELSE offers'[o] = offers[o]]_vars

(* a request matched at this instant with one of its two quotes: the     *)
(* other quote was closed by the selection                                *)
C3_Witness ==
    \E rid \in RequestIds, o \in OfferIds :
       /\ requests[rid].status = "matched"
       /\ requests[rid].matched_at = now
       /\ offers[requests[rid].matched_offer].status = "accepted"
       /\ o[1] = rid
       /\ o # requests[rid].matched_offer
       /\ offers[o].status = "expired"
       /\ offers[o].quote_amount # Null
       /\ offers[o].responded_at = now

(* C4: a request matched by selection (matched or completed) has exactly  *)
(* one accepted offer, its matched_offer, and no pending offer; several   *)
(* offers of a request are accepted together only while it is unmatched.  *)
C4_OneAcceptedOnceMatched ==
    \A rid \in RequestIds :
       /\ (requests[rid].status \in {"matched", "completed"}
            => /\ requests[rid].matched_offer # NoOfferId
               /\ requests[rid].matched_offer[1] = rid
               /\ OffersWith(offers, rid, {"accepted"}) = {requests[rid].matched_offer[2]}
               /\ OffersWith(offers, rid, {"pending"}) = {})
       /\ (Cardinality(OffersWith(offers, rid, {"accepted"})) > 1
            => /\ requests[rid].status = "pending_customer"
               /\ requests[rid].matched_provider = NoProvider)

(* a matched request whose other quote was closed by the selection *)
C4_Witness ==
    \E rid \in RequestIds, o \in OfferIds :
       /\ requests[rid].status \in {"matched", "completed"}
       /\ o[1] = rid
       /\ o # requests[rid].matched_offer
       /\ offers[o].status = "expired"
       /\ offers[o].quote_amount # Null

(* C5: of two concurrent select_provider_offer calls for one request at   *)
(* most one performs the match: once the request is matched, the other    *)
(* call finds it matched inside the row lock and writes nothing, so the   *)
(* request row (matched_provider, matched_offer, matched_at) and the      *)
(* request's offers stay as the first call left them.                     *)
C5_MatchWrittenOnce ==
    [][\A rid \in RequestIds :
         requests[rid].status = "matched"
         => /\ requests'[rid] = requests[rid]
            /\ \A o \in OfferIds : o[1] = rid => offers'[o] = offers[o]]_vars

(* a request matched, later, by one call while the other call, which     *)
(* passed the check before the block, waits for its row                   *)
C5_Witness ==
    \E rid \in RequestIds, w \in Workers :
       /\ requests[rid].status = "matched"
       /\ requests[rid].matched_at < now
       /\ tx[w].pc = "select_request"
       /\ tx[w].rid = rid

(* the quote_fee rows of a ledger that refer to the offer *)
QuoteFees(rows, oid) ==
    {i \in DOMAIN rows : /\ rows[i].transaction_type = "quote_fee"
                         /\ rows[i].reference_offer = oid}

(* C6: under every interleaving of concurrent provider_accept_offer calls *)
(* (one offer twice, or a provider's offers of two requests) an accepted  *)
(* offer is not accepted again, an offer has at most one quote_fee row,   *)
(* and an accept that finds its offer already accepted changes no offer,  *)
(* request, wallet or ledger.                                             *)
C6_AcceptedOnce ==
    [][\A oid \in OfferIds :
         /\ offers[oid].status = "accepted" => offers'[oid] = offers[oid]
         /\ Cardinality(QuoteFees(ledger'[oid[2]], oid)) <= 1
         /\ \A w \in Workers :
               (/\ tx[w].pc = "accept_body"
                /\ tx[w].rid = oid[1] /\ tx[w].p = oid[2]
                /\ tx[w].offer.status = "accepted"
                /\ tx'[w] # tx[w])
               => UNCHANGED <<offers, requests, wallets, ledger>>]_vars

(* a second accept that has read its offer as already accepted, with the  *)
(* provider's other offer accepted and charged as well                    *)
C6_Witness ==
    \E oid \in OfferIds, other \in OfferIds, w \in Workers :
       /\ tx[w].pc = "accept_body"
       /\ tx[w].rid = oid[1] /\ tx[w].p = oid[2]
       /\ tx[w].offer.status = "accepted"
       /\ Cardinality(QuoteFees(ledger[oid[2]], oid)) = 1
       /\ other # oid /\ other[2] = oid[2]
       /\ Cardinality(QuoteFees(ledger[other[2]], other)) = 1

(* C7: a successful provider_accept_offer sets the offer to accepted with *)
(* its quote, takes exactly the quote credit cost off the wallet and      *)
(* appends exactly one quote_fee row (amount -cost, balance_after the new *)
(* balance, reference the offer) in one step: no state has an accepted    *)
(* offer without its debit, or a debit without its offer accepted.        *)
C7_AcceptDebitAtomic ==
    /\ [](\A oid \in OfferIds :
            /\ offers[oid].status = "accepted"
                  => Cardinality(QuoteFees(ledger[oid[2]], oid)) = 1
            /\ QuoteFees(ledger[oid[2]], oid) # {} => offers[oid].quote_amount # Null)
    /\ [][\A oid \in OfferIds :
            LET p == oid[2]
                cost == get_quote_credit_cost(settings)
                before == IF wallets[p] = NoWallet
                          THEN get_initial_provider_credits(settings)
                          ELSE wallets[p].balance
            IN /\ (offers[oid].status = "pending" /\ offers'[oid].status = "accepted")
                     => /\ offers'[oid].quote_amount > 0
                        /\ wallets'[p] = [balance |-> before - cost]
                        /\ Len(ledger'[p]) > 0
                        /\ ledger'[p][Len(ledger'[p])] =
                              LedgerRow("quote_fee", -cost, before - cost, oid)
                        /\ SumAmounts(ledger'[p]) = before - cost
               /\ QuoteFees(ledger'[p], oid) # QuoteFees(ledger[p], oid)
                     => (offers[oid].status = "pending" /\ offers'[oid].status = "accepted")]_vars

(* an offer accepted and charged while the other worker is inside a block *)
C7_Witness ==
    \E oid \in OfferIds, w \in Workers :
       /\ offers[oid].status = "accepted"
       /\ QuoteFees(ledger[oid[2]], oid) # {}
       /\ wallets[oid[2]].balance = ledger[oid[2]][Len(ledger[oid[2]])].balance_after
       /\ tx[w].pc \in {"accept_request", "accept_body", "accept_commit", "select_offer"}

(* the quote parses to an amount above zero *)
PositiveQuote(raw) ==
    LET quote_amount == Decimal(StripQuote(raw))
    IN StripQuote(raw) # "" /\ quote_amount.ok /\ ~quote_amount.nan /\ quote_amount.value > 0

(* the balance the provider's wallet has, or is created with *)
BalanceOf(p) ==
    IF wallets[p] = NoWallet THEN get_initial_provider_credits(settings) ELSE wallets[p].balance

(* C8: when a provider accepts a pending offer with a quote above zero on *)
(* a request that is not matched, completed or cancelled, the request     *)
(* becomes pending_customer with matched_provider unset and every other   *)
(* offer of the request stays as it was (pending ones stay pending).      *)
C8_AcceptKeepsSiblings ==
    [][\A p \in Providers, rid \in RequestIds, raw \in QuoteInputs :
         (/\ offers[<<rid, p>>].status = "pending"
          /\ requests[rid].status \notin ClosedStatuses
          /\ PositiveQuote(raw)
          /\ BalanceOf(p) >= get_quote_credit_cost(settings)
          /\ ProviderAcceptOffer(p, rid, raw))
         => /\ offers'[<<rid, p>>].status = "accepted"
            /\ requests'[rid].status = "pending_customer"
            /\ requests'[rid].matched_provider = NoProvider
            /\ \A o \in OfferIds : o # <<rid, p>> => offers'[o] = offers[o]]_vars

(* an offer accepted at this instant beside a pending offer of the same request *)
C8_Witness ==
    \E rid \in RequestIds, p \in Providers, q \in Providers :
       /\ requests[rid].status = "pending_customer"
       /\ offers[<<rid, p>>].status = "accepted"
       /\ offers[<<rid, p>>].responded_at = now
       /\ q # p
       /\ offers[<<rid, q>>].status = "pending"

(* an accept of a pending offer on an open request that is blocked *)
BlockedAccept(p, rid, raw) ==
    /\ offers[<<rid, p>>].status = "pending"
    /\ requests[rid].status \notin ClosedStatuses
    /\ (~PositiveQuote(raw) \/ BalanceOf(p) < get_quote_credit_cost(settings))

C10_SweepIdempotent ==
    LET once == sweep(Db, now, settings)
        twice == sweep(once, now, settings)
    IN twice = once

(* ------------- every provider of the table is available --------------- *)
(* p4 has set is_available in its profile: Lefkosa has three providers,   *)
(* two of them in Ortakoy                                                 *)
TierInit ==
    /\ settings \in SettingsChoices
    /\ available = Providers
    /\ rating = [p \in Providers |-> Provider(p).rating]
    /\ now = 0
    /\ requests = [r \in RequestIds |-> NoRequest]
    /\ next_id = 0
    /\ offers = [o \in OfferIds |-> NoOffer]
    /\ wallets = [p \in Providers |-> NoWallet]
    /\ ledger = [p \in Providers |-> <<>>]
    /\ appointments = [r \in RequestIds |-> NoAppointment]
    /\ messages = [r \in RequestIds |-> <<>>]
    /\ tx = [w \in Workers |-> Idle]

(* the matching workflow of a request in Lefkosa *)
TierNext ==
    \/ Tick(MaxTime)
    \/ \E district \in Districts : CreateRequest("Lefkosa", district, MaxRequests)
    \/ Sweep
    \/ \E p \in Providers, rid \in RequestIds, raw \in ConcQuoteInputs :
          ProviderAcceptOffer(p, rid, raw)
    \/ \E p \in Providers, rid \in RequestIds : ProviderRejectOffer(p, rid)
    \/ \E rid \in RequestIds, oid \in OfferIds : SelectProviderOffer(rid, oid)
    \/ \E rid \in RequestIds : CancelRequest(rid)

TierSpec == TierInit /\ [][TierNext]_vars

(* ----------------- rows from before expires_at existed ----------------- *)
(* the offers a database migrated from the schema without expires_at      *)
(* holds: pending, accepted and rejected rows with expires_at NULL        *)
LegacyRows(sequence) ==
    { NoOffer,
      [status |-> "pending", sequence |-> sequence, sent_at |-> 0, expires_at |-> Null,
       reminder_sent_at |-> Null, responded_at |-> Null, quote_amount |-> Null],
      [status |-> "accepted", sequence |-> sequence, sent_at |-> 0, expires_at |-> Null,
       reminder_sent_at |-> Null, responded_at |-> 0, quote_amount |-> 950],
      [status |-> "rejected", sequence |-> sequence, sent_at |-> 0, expires_at |-> Null,
       reminder_sent_at |-> Null, responded_at |-> 0, quote_amount |-> Null] }

LegacyInit ==
    /\ settings \in SettingsChoices
    /\ available = {p \in Providers : Provider(p).is_available}
    /\ rating = [p \in Providers |-> Provider(p).rating]
    /\ now = 0
    /\ next_id = 1
    /\ \E first \in LegacyRows(1), second \in LegacyRows(2) :
          /\ "pending" \in {first.status, second.status}
          /\ offers = [o \in OfferIds |->
                         IF o = <<1, "p2">> THEN first
                         ELSE IF o = <<1, "p1">> THEN second
                         ELSE NoOffer]
          /\ requests = [r \in RequestIds |->
                           IF r = 1
                           THEN [NewRequest("Lefkosa", ANY_DISTRICT_VALUE, "Tesisat")
                                   EXCEPT !.status = IF "accepted" \in {first.status, second.status}
                                                     THEN "pending_customer"
                                                     ELSE "pending_provider"]
                           ELSE NoRequest]
    /\ wallets = [p \in Providers |-> NoWallet]
    /\ ledger = [p \in Providers |-> <<>>]
    /\ appointments = [r \in RequestIds |-> NoAppointment]
    /\ messages = [r \in RequestIds |-> <<>>]
    /\ tx = [w \in Workers |-> Idle]

LegacyNext ==
    \/ Tick(MaxTime)
    \/ Sweep

LegacySpec == LegacyInit /\ [][LegacyNext]_vars

(* the time a pending offer is due: expires_at, or sent_at + expiry minutes *)
DueAt(o) ==
    IF offers[o].expires_at # Null THEN offers[o].expires_at
    ELSE offers[o].sent_at + get_offer_expiry_minutes(settings)

(* C11: after refresh_offer_lifecycle at time now, every offer that was   *)
(* pending and due (expires_at, or sent_at + expiry minutes when it had   *)
(* none, <= now) is expired with responded_at = now, no pending offer due *)
(* at now or before is left, and the offers that were accepted, rejected  *)
(* or expired are as they were.                                           *)
C11_SweepExpiresDue ==
    [][Sweep =>
         \A o \in OfferIds :
            /\ (offers[o].status = "pending" /\ DueAt(o) <= now)
                  => (offers'[o].status = "expired" /\ offers'[o].responded_at = now)
            /\ offers'[o].status = "pending"
                  => (offers'[o].expires_at # Null /\ offers'[o].expires_at > now)
            /\ offers[o].status \in {"accepted", "rejected", "expired"}
                  => offers'[o] = offers[o]]_vars

(* an offer without expires_at expired by the sweep at this instant, next *)
(* to an accepted offer the sweep left alone                              *)
C11_Witness ==
    \E o \in OfferIds, a \in OfferIds :
       /\ offers[o].status = "expired"
       /\ offers[o].responded_at = now
       /\ offers[o].expires_at = offers[o].sent_at + get_offer_expiry_minutes(settings)
       /\ a[1] = o[1]
       /\ offers[a].status = "accepted"
       /\ offers[a].expires_at = Null

(* C12 as stated: a request created where no available provider offers   *)
(* the service in its city, whatever its district (the any-district      *)
(* value included), gets an empty tier list from the candidate selector   *)
(* and no-candidates from dispatch_next_provider_offer, status new and no *)
(* offer.                                                                 *)
C12_NoCandidates ==
    [][\A city \in Cities, district \in Districts :
         LET service_request == NewRequest(city, district, "Tesisat")
         IN (base_qs(service_request) = {} /\ CreateRequest(city, district, MaxRequests))
            => /\ build_provider_candidate_groups(service_request) = <<>>
               /\ create_request(Db, next_id + 1, city, district, now, settings).result
                     = "no-candidates"
               /\ requests'[next_id + 1].status = "new"
               /\ offers' = offers]_vars

(* the providers that can serve the request, and its two tiers: those of  *)
(* the request's district (all of them for the any-district value), then  *)
(* the others of the city                                                 *)
Eligible(service_request) ==
    { p \in Providers : /\ p \in available
                        /\ Provider(p).service = service_request.service_type
                        /\ iexact(Provider(p).city) = iexact(service_request.city) }

DistrictTier(service_request) ==
    IF service_request.district = ANY_DISTRICT_VALUE THEN Eligible(service_request)
    ELSE { p \in Eligible(service_request) :
             iexact(Provider(p).district) = iexact(service_request.district) }

CityTier(service_request) == Eligible(service_request) \ DistrictTier(service_request)

(* the providers whose offer of the request is created by the step *)
Created(rid) ==
    { p \in Providers : offers[<<rid, p>>] = NoOffer /\ offers'[<<rid, p>>] # NoOffer }

(* C13: a dispatch that creates offers creates exactly one pending offer  *)
(* for every not-yet-offered provider of the first tier (district, then   *)
(* city) that has one, none for another tier or an ineligible provider,   *)
(* and leaves the request pending_provider with matched_provider,         *)
(* matched_offer and matched_at cleared; on creation every provider of    *)
(* the first non-empty tier gets a pending offer.                         *)
C13_DispatchOneTier ==
    [][\A rid \in RequestIds :
         Created(rid) # {}
         => LET offered == OffersOf(offers, rid)
                first == DistrictTier(requests'[rid]) \ offered
                second == CityTier(requests'[rid]) \ offered
            IN /\ Created(rid) = IF first # {} THEN first ELSE second
               /\ \A p \in Created(rid) :
                     /\ offers'[<<rid, p>>].status = "pending"
                     /\ offers'[<<rid, p>>].sent_at = now
               /\ requests'[rid].status = "pending_provider"
               /\ requests'[rid].matched_provider = NoProvider
               /\ requests'[rid].matched_offer = NoOfferId
               /\ requests'[rid].matched_at = Null]_vars

(* the city tier was offered the request after the district tier's offer  *)
(* was answered                                                           *)
C13_Witness ==
    \E rid \in RequestIds, p \in Providers, q \in Providers :
       /\ requests[rid].status = "pending_provider"
       /\ p \in DistrictTier(requests[rid])
       /\ q \in CityTier(requests[rid])
       /\ offers[<<rid, p>>].status \in {"rejected", "expired"}
       /\ offers[<<rid, q>>].status = "pending"
       /\ offers[<<rid, q>>].sent_at > offers[<<rid, p>>].sent_at

(* C14: after any sequence of creations, dispatches, rejections and       *)
(* sweeps no request has two offers of one provider. The offer table is   *)
(* keyed by request and provider (unique_together), so a second offer of  *)
(* a pair is a step that creates a row where one exists: no step gives an *)
(* existing offer a new sequence or sent_at or makes an answered offer    *)
(* pending again, and the sequences of a request's offers are distinct.   *)
C14_OneOfferPerProvider ==
    /\ [][\A o \in OfferIds :
            offers[o] # NoOffer /\ offers'[o] # NoOffer
            => /\ offers'[o].sequence = offers[o].sequence
               /\ offers'[o].sent_at = offers[o].sent_at
               /\ offers'[o].status = "pending" => offers[o].status = "pending"]_vars
    /\ [](\A o \in OfferIds, q \in OfferIds :
            (/\ o # q /\ o[1] = q[1]
             /\ offers[o] # NoOffer /\ offers[q] # NoOffer)
            => offers[o].sequence # offers[q].sequence)

(* both tiers were offered the request, the first tier's offer rejected,  *)
(* and the dispatch that followed left it as it was                       *)
C14_Witness ==
    \E rid \in RequestIds, p \in Providers, q \in Providers :
       /\ offers[<<rid, p>>].status = "rejected"
       /\ offers[<<rid, p>>].sequence = 1
       /\ offers[<<rid, q>>].status = "pending"
       /\ offers[<<rid, q>>].sequence = 2
       /\ offers[<<rid, q>>].sent_at = offers[<<rid, p>>].responded_at

(* C15: in every state the providers of a request's pending offers belong *)
(* to one tier of the candidate selector: a tier is dispatched only when  *)
(* the request is left with no pending and no accepted offer, so the      *)
(* offers a dispatch creates are the only pending or accepted ones.       *)
C15_PendingInOneTier ==
    /\ [](\A rid \in RequestIds :
            requests[rid] # NoRequest
            => LET pending == OffersWith(offers, rid, {"pending"})
               IN \/ pending \subseteq DistrictTier(requests[rid])
                  \/ pending \subseteq CityTier(requests[rid]))
    /\ [][\A rid \in RequestIds :
            Created(rid) # {}
            => \A p \in Providers :
                  offers'[<<rid, p>>].status \in {"pending", "accepted"} => p \in Created(rid)]_vars

(* one provider of the district tier has rejected, the other's offer is   *)
(* pending, and the city tier has not been offered the request            *)
C15_Witness ==
    \E rid \in RequestIds, p \in Providers, q \in Providers, c \in Providers :
       /\ requests[rid] # NoRequest
       /\ {p, q} \subseteq DistrictTier(requests[rid])
       /\ offers[<<rid, p>>].status = "rejected"
       /\ offers[<<rid, q>>].status = "pending"
       /\ c \in CityTier(requests[rid])
       /\ offers[<<rid, c>>] = NoOffer

(* C16: when a provider rejects a pending offer and the request keeps     *)
(* another pending or accepted offer, the offer becomes rejected with     *)
(* responded_at set, no offer is created or deleted, the request stays,   *)
(* and its status is pending_customer if it has an accepted offer and     *)
(* pending_provider otherwise.                                            *)
C16_RejectWithOthersLeft ==
    [][\A p \in Providers, rid \in RequestIds :
          /\ offers[<<rid, p>>] # NoOffer
          /\ offers[<<rid, p>>].status = "pending"
          /\ OffersWith(offers, rid, {"pending", "accepted"}) \ {p} # {}
          /\ ProviderRejectOffer(p, rid)
          => /\ offers' = [offers EXCEPT ![<<rid, p>>].status = "rejected",
                                         ![<<rid, p>>].responded_at = now]
             /\ requests' = [requests EXCEPT ![rid].status =
                                 IF OffersWith(offers, rid, {"accepted"}) # {}
                                 THEN "pending_customer" ELSE "pending_provider"]
             /\ requests'[rid] # NoRequest]_vars

(* a request with a rejected offer, an accepted offer and a pending one   *)
C16_Witness ==
    \E rid \in RequestIds, p \in Providers, q \in Providers, c \in Providers :
       /\ requests[rid] # NoRequest
       /\ requests[rid].status = "pending_customer"
       /\ offers[<<rid, p>>].status = "rejected"
       /\ offers[<<rid, p>>].responded_at = now
       /\ offers[<<rid, q>>].status = "pending"
       /\ offers[<<rid, c>>].status = "accepted"

(* C17: when a provider rejects the last pending offer of a request with  *)
(* no accepted offer, then, if an eligible provider has no offer of the   *)
(* request yet, the first tier with such providers gets pending offers    *)
(* and the request is pending_provider; if there is none, the request and *)
(* all its offers are deleted.                                            *)
C17_RejectOfLastPending ==
    [][\A p \in Providers, rid \in RequestIds :
          /\ offers[<<rid, p>>] # NoOffer
          /\ offers[<<rid, p>>].status = "pending"
          /\ OffersWith(offers, rid, {"pending", "accepted"}) \ {p} = {}
          /\ ProviderRejectOffer(p, rid)
          => LET offered == OffersOf(offers, rid)
                 first == DistrictTier(requests[rid]) \ offered
                 second == CityTier(requests[rid]) \ offered
             IN IF Eligible(requests[rid]) \ offered # {}
                THEN /\ requests'[rid] # NoRequest
                     /\ requests'[rid].status = "pending_provider"
                     /\ offers'[<<rid, p>>].status = "rejected"
                     /\ Created(rid) = IF first # {} THEN first ELSE second
                     /\ \A q \in Created(rid) : offers'[<<rid, q>>].status = "pending"
                     /\ OffersWith(offers', rid, {"pending"}) = Created(rid)
                ELSE /\ requests'[rid] = NoRequest
                     /\ OffersOf(offers', rid) = {}]_vars

(* every provider of the district tier has rejected and the city tier was *)
(* offered the request at the time of a rejection                         *)
C17_Witness ==
    \E rid \in RequestIds, p \in Providers, q \in Providers :
       /\ requests[rid] # NoRequest
       /\ requests[rid].status = "pending_provider"
       /\ p \in DistrictTier(requests[rid])
       /\ \A d \in DistrictTier(requests[rid]) : offers[<<rid, d>>].status = "rejected"
       /\ q \in CityTier(requests[rid])
       /\ offers[<<rid, q>>].status = "pending"
       /\ offers[<<rid, q>>].sent_at = offers[<<rid, p>>].responded_at

(* C18: cancel_request takes effect exactly when the request's status is  *)
(* new, pending_provider or pending_customer and matched_provider is      *)
(* unset: then every pending or accepted offer of the request becomes     *)
(* expired (responded_at set), the other offers stay, and the status      *)
(* becomes cancelled; in every other case the requests and the offers are *)
(* unchanged.                                                             *)
C18_CancelRequest ==
    [][\A rid \in RequestIds :
          CancelRequest(rid)
          => IF /\ requests[rid].status \in {"new", "pending_provider", "pending_customer"}
                /\ requests[rid].matched_provider = NoProvider
             THEN /\ requests'[rid].status = "cancelled"
                  /\ requests' = [requests EXCEPT ![rid] = requests'[rid]]
                  /\ \A o \in OfferIds :
                        offers'[o] =
                           IF o[1] = rid /\ offers[o].status \in {"pending", "accepted"}
                           THEN [offers[o] EXCEPT !.status = "expired", !.responded_at = now]
                           ELSE offers[o]
             ELSE /\ requests' = requests
                  /\ offers' = offers]_vars

(* a cancelled request whose accepted offer and pending offer were        *)
(* expired by the cancellation                                            *)
C18_Witness ==
    \E rid \in RequestIds, p \in Providers, q \in Providers :
       /\ requests[rid] # NoRequest
       /\ requests[rid].status = "cancelled"
       /\ offers[<<rid, p>>].status = "expired"
       /\ offers[<<rid, p>>].quote_amount # Null
       /\ offers[<<rid, p>>].responded_at = now
       /\ offers[<<rid, q>>].status = "expired"
       /\ offers[<<rid, q>>].quote_amount = Null
       /\ offers[<<rid, q>>].responded_at = now
       /\ now < offers[<<rid, q>>].expires_at

(* C19: completed and cancelled are terminal: no step changes or removes  *)
(* a request whose status is completed; a cancelled request keeps its     *)
(* status until it is deleted, and no offer is created for it.            *)
C19_TerminalStatuses ==
    [][\A rid \in RequestIds :
          /\ requests[rid].status = "completed"
             => /\ requests'[rid] # NoRequest
                /\ requests'[rid].status = "completed"
          /\ requests[rid].status = "cancelled"
             => /\ requests'[rid] = NoRequest \/ requests'[rid].status = "cancelled"
                /\ Created(rid) = {}
                /\ \A p \in Providers :
                      offers[<<rid, p>>] # NoOffer /\ requests'[rid] # NoRequest
                      => offers'[<<rid, p>>].status = offers[<<rid, p>>].status]_vars

(* a completed request, after the time of its completion has passed *)
C19_Witness ==
    \E rid \in RequestIds :
       /\ requests[rid] # NoRequest
       /\ requests[rid].status = "completed"
       /\ requests[rid].matched_at < now
       /\ appointments[rid] # NoAppointment
       /\ appointments[rid].status = "completed"

(* C20: no step moves a request to completed while its appointment is     *)
(* pending or pending_customer, or confirmed with scheduled_for still in  *)
(* the future.                                                            *)
C20_NoCompletionBeforeAppointment ==
    [][\A rid \in RequestIds :
          /\ requests[rid].status # "completed"
          /\ requests'[rid].status = "completed"
          => /\ appointments[rid].status \notin {"pending", "pending_customer"}
             /\ ~(/\ appointments[rid].status = "confirmed"
                   /\ appointments[rid].scheduled_for > now)]_vars

(* C20, as the code has it: a request is never moved to completed while  *)
(* its appointment is pending or pending_customer; complete_request moves *)
(* it only from matched and not while the appointment is confirmed with   *)
(* scheduled_for in the future; every other completion is a               *)
(* provider_complete_appointment on a confirmed appointment, whatever its *)
(* scheduled_for.                                                         *)
C20_CompletionAmended ==
    [][\A rid \in RequestIds :
          /\ requests[rid].status # "completed"
          /\ requests'[rid].status = "completed"
          => /\ appointments[rid].status \notin {"pending", "pending_customer"}
             /\ CompleteRequest(rid)
                => /\ requests[rid].status = "matched"
                   /\ ~(/\ appointments[rid].status = "confirmed"
                         /\ appointments[rid].scheduled_for > now)
             /\ ~CompleteRequest(rid)
                => /\ appointments[rid].status = "confirmed"
                   /\ \E p \in Providers : ProviderCompleteAppointment(rid, p)]_vars

(* a request completed by its provider before the time of the confirmed   *)
(* appointment                                                            *)
C20_Witness ==
    \E rid \in RequestIds :
       /\ requests[rid].status = "completed"
       /\ appointments[rid].status = "completed"
       /\ appointments[rid].scheduled_for > now

(* C21: an appointment becomes confirmed only by customer_confirm_appointment *)
(* from pending_customer, and pending_customer only by                        *)
(* provider_confirm_appointment of its provider from pending; a step that     *)
(* changes the schedule leaves it pending, so both approvals follow the last  *)
(* (re)scheduling. A provider confirm or reject of an appointment that is not *)
(* pending, and a customer confirm of one that is not pending_customer,       *)
(* change nothing.                                                            *)
C21_TwoLegConfirmation ==
    [][\A rid \in RequestIds :
          LET a == appointments[rid]
              b == appointments'[rid]
          IN /\ b.status = "confirmed" /\ a.status # "confirmed"
                => /\ a.status = "pending_customer"
                   /\ CustomerConfirmAppointment(rid)
                   /\ b = [a EXCEPT !.status = "confirmed"]
             /\ b.status = "pending_customer" /\ a.status # "pending_customer"
                => /\ a.status = "pending"
                   /\ \E note \in Notes : ProviderConfirmAppointment(rid, a.provider, note)
                   /\ b.scheduled_for = a.scheduled_for
             /\ /\ a # NoAppointment
                /\ b # NoAppointment
                /\ b.scheduled_for # a.scheduled_for
                => b.status = "pending"
             /\ \A p \in Providers, note \in Notes :
                   /\ a.status # "pending"
                   /\ ProviderConfirmAppointment(rid, p, note) \/ ProviderRejectAppointment(rid, p, note)
                   => appointments' = appointments /\ requests' = requests
             /\ a.status # "pending_customer" /\ CustomerConfirmAppointment(rid)
                => appointments' = appointments /\ requests' = requests]_vars

(* an appointment with the provider's note, confirmed by the customer *)
C21_Witness ==
    \E rid \in RequestIds :
       /\ appointments[rid].status = "confirmed"
       /\ appointments[rid].provider_note = "not"
       /\ appointments[rid].scheduled_for = MaxTime + 1
       /\ requests[rid].matched_at = 0

(* C22: create_appointment on a matched request with a time strictly after *)
(* now writes a pending appointment of the matched provider with the new   *)
(* schedule and customer note and an empty provider note, whether none     *)
(* existed or one existed in a status other than completed; when the       *)
(* existing appointment is completed, the time is not after now or the     *)
(* request is not matched, nothing changes. The request itself and the     *)
(* appointments of other requests never change.                            *)
C22_CreateAppointment ==
    [][\A rid \in RequestIds, scheduled_for \in 0..(MaxTime + 1), note \in Notes :
          CreateAppointment(rid, scheduled_for, note)
          => /\ requests' = requests
             /\ IF /\ requests[rid].status = "matched"
                   /\ requests[rid].matched_provider # NoProvider
                   /\ scheduled_for > now
                   /\ appointments[rid].status # "completed"
                THEN appointments' =
                        [appointments EXCEPT ![rid] =
                            [status |-> "pending", provider |-> requests[rid].matched_provider,
                             scheduled_for |-> scheduled_for, customer_note |-> note,
                             provider_note |-> ""]]
                ELSE appointments' = appointments]_vars

(* a pending appointment of a matched request, for a time still to come *)
C22_Witness ==
    \E rid \in RequestIds :
       /\ appointments[rid].status = "pending"
       /\ appointments[rid].provider_note = ""
       /\ appointments[rid].scheduled_for = MaxTime + 1
       /\ now = MaxTime
       /\ requests[rid].status = "matched"

(* C23: completed, cancelled and rejected are terminal appointment        *)
(* statuses: no step changes the status of an appointment that is in one  *)
(* of them.                                                               *)
C23_TerminalAppointments ==
    [][\A rid \in RequestIds :
          /\ appointments[rid].status \in {"completed", "cancelled", "rejected"}
          /\ appointments'[rid] # NoAppointment
          => appointments'[rid].status = appointments[rid].status]_vars

(* C23, as the code has it: a completed appointment never changes; a      *)
(* cancelled or rejected one changes only when create_appointment         *)
(* reschedules it, which makes it pending again.                          *)
C23_TerminalAmended ==
    [][\A rid \in RequestIds :
          /\ appointments[rid].status = "completed"
             => appointments'[rid] = appointments[rid]
          /\ /\ appointments[rid].status \in {"cancelled", "rejected"}
             /\ appointments'[rid] # NoAppointment
             /\ appointments'[rid] # appointments[rid]
             => /\ appointments'[rid].status = "pending"
                /\ \E scheduled_for \in 0..(MaxTime + 1), note \in Notes :
                      CreateAppointment(rid, scheduled_for, note)]_vars

(* an appointment rejected by the provider while its request is matched   *)
(* and a later time can still be proposed                                 *)
C23_Witness ==
    \E rid \in RequestIds :
       /\ appointments[rid].status = "rejected"
       /\ appointments[rid].provider_note = "not"
       /\ requests[rid].status = "matched"
       /\ now < MaxTime + 1

(* C24: provider_complete_appointment takes effect only on a confirmed     *)
(* appointment of the calling provider: the appointment becomes completed, *)
(* its request becomes completed and the request's messages are deleted;   *)
(* on any other appointment the appointments, the requests and the         *)
(* messages are unchanged.                                                 *)
C24_ProviderCompletes ==
    [][\A rid \in RequestIds, p \in Providers :
          ProviderCompleteAppointment(rid, p)
          => IF appointments[rid].provider = p /\ appointments[rid].status = "confirmed"
             THEN /\ appointments' = [appointments EXCEPT ![rid].status = "completed"]
                  /\ requests' = [requests EXCEPT ![rid].status = "completed"]
                  /\ messages' = [messages EXCEPT ![rid] = <<>>]
             ELSE /\ appointments' = appointments
                  /\ requests' = requests
                  /\ messages' = messages]_vars

(* a request completed with its appointment, with no message left, while   *)
(* the provider's note is on the appointment                               *)
C24_Witness ==
    \E rid \in RequestIds :
       /\ requests[rid].status = "completed"
       /\ appointments[rid].status = "completed"
       /\ appointments[rid].provider_note = "not"
       /\ appointments[rid].provider = requests[rid].matched_provider
       /\ messages[rid] = <<>>

(* C25: in every state a completed request has no messages; a message is   *)
(* stored only by request_messages while the request is matched, sent by   *)
(* the request's customer or its matched provider, and a step that         *)
(* completes a request leaves it without messages.                         *)
C25_CompletedHasNoMessages ==
    /\ [](\A rid \in RequestIds :
            requests[rid].status = "completed" => messages[rid] = <<>>)
    /\ [][\A rid \in RequestIds :
            Len(messages'[rid]) > Len(messages[rid])
            => /\ requests[rid].status = "matched"
               /\ requests' = requests
               /\ \E p \in {NoProvider, requests[rid].matched_provider} :
                     /\ RequestMessages(rid, p)
                     /\ messages'[rid] =
                           Append(messages[rid],
                                  IF p = NoProvider THEN "customer" ELSE "provider")]_vars

(* a request with no appointment that its customer completed, with no      *)
(* message left                                                            *)
C25_Witness ==
    \E rid \in RequestIds :
       /\ requests[rid].status = "completed"
       /\ appointments[rid] = NoAppointment
       /\ messages[rid] = <<>>

(* ------------------------ the offer comparator ------------------------- *)
(* round(x, 1) of x = num / den >= 0, in tenths; a value half way between *)
(* two tenths goes to the even one                                        *)
round(num, den) ==
    LET q == (10 * num) \div den
        r == (10 * num) % den
    IN IF 2 * r < den THEN q
       ELSE IF 2 * r > den THEN q + 1
       ELSE IF q % 2 = 0 THEN q ELSE q + 1

(* the price score that gives the full points to the offers without a quote *)
price_score_unquoted_full(quote_amount, min_quote, max_quote) ==
    IF quote_amount = Null THEN 550
    ELSE IF max_quote = min_quote THEN 550
    ELSE Max(0, Min(550, round(55 * (max_quote - quote_amount), max_quote - min_quote)))

(* the scores are kept in tenths: 55.0 is 550 *)
price_score(quote_amount, min_quote, max_quote) ==
    IF quote_amount = Null \/ min_quote = Null \/ max_quote = Null THEN 220
    ELSE IF max_quote = min_quote THEN 550
    ELSE Max(0, Min(550, round(55 * (max_quote - quote_amount), max_quote - min_quote)))

(* (float(offer.provider.rating) / 5.0) * 35.0, the rating being in tenths *)
rating_score(provider_rating) == Max(0, Min(350, round(provider_rating * 35, 50)))

speed_score(sequence, max_sequence) ==
    IF max_sequence <= 1 THEN 100
    ELSE Max(0, Min(100, round((max_sequence - sequence) * 10, max_sequence - 1)))

(* offer.sequence or 1 *)
sequence_or_1(offer) == IF offer.sequence = 0 THEN 1 ELSE offer.sequence

(* a sort key that stops at the comparison score *)
key_less_score_only(a, b) == a.comparison_score > b.comparison_score

(* the sort key, compared as Python compares the tuples; a missing quote  *)
(* is float("inf")                                                        *)
key_less(a, b) ==
    \/ a.comparison_score > b.comparison_score
    \/ /\ a.comparison_score = b.comparison_score
       /\ \/ a.quote_amount # Null /\ (b.quote_amount = Null \/ a.quote_amount < b.quote_amount)
          \/ /\ a.quote_amount = b.quote_amount
             /\ a.rating > b.rating

(* sorted(): a stable sort, an offer goes behind those that are not after it *)
RECURSIVE sorted(_, _)
sorted(items, n) ==
    IF n = 0 THEN <<>>
    ELSE LET done == sorted(items, n - 1)
             x == items[n]
             k == Cardinality({ i \in DOMAIN done : ~key_less(x, done[i]) })
         IN SubSeq(done, 1, k) \o <<x>> \o SubSeq(done, k + 1, Len(done))

(* items: the accepted offers of a request as [provider, quote_amount,    *)
(* sequence, rating], in the order of the query                           *)
score_accepted_offers(items) ==
    LET quote_values == { items[i].quote_amount : i \in DOMAIN items } \ {Null}
        min_quote == IF quote_values = {} THEN Null
                     ELSE CHOOSE q \in quote_values : \A v \in quote_values : q <= v
        max_quote == IF quote_values = {} THEN Null
                     ELSE CHOOSE q \in quote_values : \A v \in quote_values : q >= v
        sequences == { sequence_or_1(items[i]) : i \in DOMAIN items }
        max_sequence == CHOOSE m \in sequences : \A v \in sequences : m >= v
        scored == [i \in DOMAIN items |->
                     LET price == price_score(items[i].quote_amount, min_quote, max_quote)
                         rate == rating_score(items[i].rating)
                         speed == speed_score(sequence_or_1(items[i]), max_sequence)
                     IN [provider |-> items[i].provider,
                         quote_amount |-> items[i].quote_amount,
                         sequence |-> items[i].sequence,
                         rating |-> items[i].rating,
                         price_score |-> price, rating_score |-> rate, speed_score |-> speed,
                         comparison_score |-> price + rate + speed]]
    IN IF items = <<>> THEN <<>> ELSE sorted(scored, Len(scored))

(* my_requests: the accepted offers of the request, as the prefetch of     *)
(* provider_offers returns them: by sequence, offers of one sequence in    *)
(* any order                                                               *)
accepted_offers(rid) ==
    LET accepted == OffersWith(offers, rid, {"accepted"})
        n == Cardinality(accepted)
    IN { [i \in 1..n |-> [provider |-> f[i],
                           quote_amount |-> offers[<<rid, f[i]>>].quote_amount,
                           sequence |-> offers[<<rid, f[i]>>].sequence,
                           rating |-> rating[f[i]]]] :
           f \in { g \in [1..n -> accepted] :
                     /\ \A i, j \in 1..n : i # j => g[i] # g[j]
                     /\ \A i, j \in 1..n :
                           i < j => offers[<<rid, g[i]>>].sequence <= offers[<<rid, g[j]>>].sequence } }

recommended_offer_id(rid, items) ==
    IF score_accepted_offers(items) = <<>> THEN NoOfferId
    ELSE <<rid, score_accepted_offers(items)[1].provider>>

(* the inputs of the comparator: with quotes 200, 1044 and 1200 the middle  *)
(* price score is 8.58, rounded to 8.6, which the speed scores of the       *)
(* sequences 1 and 7 of 8 (10.0 and 1.4) make up for; the rating scores of  *)
(* 4.8 and 5.0 differ by the speed scores of the sequences 7 and 8 of 8     *)
ScoreProviders == {"p1", "p2", "p4"}
ScoreQuotes == {Null, 200, 1044, 1200}
ScoreSequences == {1, 7, 8}
ScoreRatings == {48, 50}

ScoreRows ==
    {NoOffer} \cup
    { [status |-> "accepted", sequence |-> sequence, sent_at |-> 0, expires_at |-> 1,
       reminder_sent_at |-> Null, responded_at |-> 0, quote_amount |-> quote] :
         sequence \in ScoreSequences, quote \in ScoreQuotes }

(* a request in Lefkosa with accepted offers, as the comparison test of    *)
(* tests.py creates them                                                   *)
ScoreInit ==
    /\ settings \in { c \in SettingsChoices : c.QUOTE_CREDIT_COST = 1 }
    /\ available = Providers
    /\ rating \in { [p \in Providers |->
                        IF p = "p1" THEN first ELSE IF p = "p2" THEN second
                        ELSE Provider(p).rating] : first \in ScoreRatings, second \in ScoreRatings }
    /\ now = 0
    /\ next_id = 1
    /\ requests = [r \in RequestIds |->
                     IF r = 1
                     THEN [NewRequest("Lefkosa", ANY_DISTRICT_VALUE, "Tesisat")
                             EXCEPT !.status = "pending_customer"]
                     ELSE NoRequest]
    /\ \E rows \in [ScoreProviders -> ScoreRows] :
          /\ \E p \in ScoreProviders : rows[p] # NoOffer
          /\ offers = [id \in OfferIds |->
                         IF id[1] = 1 /\ id[2] \in ScoreProviders THEN rows[id[2]] ELSE NoOffer]
    /\ wallets = [p \in Providers |-> NoWallet]
    /\ ledger = [p \in Providers |-> <<>>]
    /\ appointments = [r \in RequestIds |-> NoAppointment]
    /\ messages = [r \in RequestIds |-> <<>>]
    /\ tx = [w \in Workers |-> Idle]

(* the customer opens the request list, which runs the sweep and ranks the *)
(* accepted offers, and chooses an offer                                   *)
ScoreNext ==
    \/ Tick(MaxTime)
    \/ Sweep
    \/ \E rid \in RequestIds, oid \in OfferIds : SelectProviderOffer(rid, oid)

ScoreSpec == ScoreInit /\ [][ScoreNext]_vars

(* C26: among the accepted offers of a request, an offer without a quote   *)
(* has price score 22; when all quotes are equal every quoted offer has    *)
(* 55; otherwise the cheapest has 55, the priciest 0 and the others        *)
(* 55 * (1 - (quote - min) / (max - min)) to one decimal; and of two       *)
(* quoted offers with equal rating and equal sequence the one with the     *)
(* lower quote does not have the lower comparison score.                   *)
C26_PriceScore ==
    \A rid \in RequestIds : \A items \in accepted_offers(rid) :
       LET out == score_accepted_offers(items)
           quotes == { out[i].quote_amount : i \in DOMAIN out } \ {Null}
       IN \A i \in DOMAIN out :
             /\ out[i].quote_amount = Null => out[i].price_score = 220
             /\ out[i].quote_amount # Null
                => LET lo == CHOOSE q \in quotes : \A v \in quotes : q <= v
                       hi == CHOOSE q \in quotes : \A v \in quotes : q >= v
                   IN /\ lo = hi => out[i].price_score = 550
                      /\ lo < hi /\ out[i].quote_amount = lo => out[i].price_score = 550
                      /\ lo < hi /\ out[i].quote_amount = hi => out[i].price_score = 0
                      /\ lo < hi
                         => 2 * (out[i].price_score * (hi - lo) - 550 * (hi - out[i].quote_amount))
                               \in (lo - hi)..(hi - lo)
             /\ \A j \in DOMAIN out :
                   /\ out[i].rating = out[j].rating
                   /\ out[i].sequence = out[j].sequence
                   /\ out[i].quote_amount # Null
                   /\ out[j].quote_amount # Null
                   /\ out[i].quote_amount < out[j].quote_amount
                   => out[i].comparison_score >= out[j].comparison_score

(* three accepted offers of a request: two of equal rating and sequence    *)
(* with different quotes, and one without a quote                          *)
C26_Witness ==
    \E rid \in RequestIds, p \in Providers, q \in Providers, u \in Providers :
       /\ offers[<<rid, p>>].status = "accepted"
       /\ offers[<<rid, q>>].status = "accepted"
       /\ offers[<<rid, u>>].status = "accepted"
       /\ offers[<<rid, p>>].quote_amount # Null
       /\ offers[<<rid, q>>].quote_amount # Null
       /\ offers[<<rid, p>>].quote_amount < offers[<<rid, q>>].quote_amount
       /\ offers[<<rid, p>>].sequence = offers[<<rid, q>>].sequence
       /\ rating[p] = rating[q]
       /\ offers[<<rid, u>>].quote_amount = Null

(* C27: score_accepted_offers returns its input in another order: by       *)
(* comparison score descending, then quote ascending with a missing quote  *)
(* last, then rating descending; the recommended offer is the first one    *)
(* and no offer of the set has a higher comparison score; the order does   *)
(* not depend on anything but the input.                                   *)
C27_SortedBestFirst ==
    \A rid \in RequestIds : \A items \in accepted_offers(rid) :
       LET out == score_accepted_offers(items)
           row(x) == [provider |-> x.provider, quote_amount |-> x.quote_amount,
                      sequence |-> x.sequence, rating |-> x.rating]
       IN /\ Len(out) = Len(items)
          /\ { row(out[i]) : i \in DOMAIN out } = SeqToSet(items)
          /\ \A i, j \in DOMAIN out :
                i < j
                => \/ out[i].comparison_score > out[j].comparison_score
                   \/ /\ out[i].comparison_score = out[j].comparison_score
                      /\ out[i].quote_amount # Null
                      /\ out[j].quote_amount = Null \/ out[i].quote_amount < out[j].quote_amount
                   \/ /\ out[i].comparison_score = out[j].comparison_score
                      /\ out[i].quote_amount = out[j].quote_amount
                      /\ out[i].rating >= out[j].rating
          /\ items # <<>>
             => /\ recommended_offer_id(rid, items) = <<rid, out[1].provider>>
                /\ \A i \in DOMAIN out : out[1].comparison_score >= out[i].comparison_score
          /\ \A i \in DOMAIN out :
                out[i].comparison_score =
                   out[i].price_score + out[i].rating_score + out[i].speed_score

(* two accepted offers with the same comparison score, where the one       *)
(* dispatched later has the lower quote and comes first                    *)
C27_Witness ==
    \E rid \in RequestIds : \E items \in accepted_offers(rid) :
       LET out == score_accepted_offers(items)
       IN \E i, j \in DOMAIN out :
             /\ i < j
             /\ out[i].comparison_score = out[j].comparison_score
             /\ out[i].quote_amount < out[j].quote_amount
             /\ out[i].quote_amount # Null
             /\ out[i].sequence > out[j].sequence

(* C28: under every interleaving of provider_accept_offer and              *)
(* select_provider_offer transactions there is no state in which two       *)
(* transactions each wait for a row lock that the other holds.             *)
C28_NoLockCycle ==
    \A w \in Workers, v \in Workers :
       w # v => ~(/\ Wants(w) \cap tx[v].locks # {}
                  /\ Wants(v) \cap tx[w].locks # {})

(* an accept that holds its offer row and waits for the request row held   *)
(* by a select, which waits for that offer row                             *)
C28_Witness ==
    \E w \in Workers, v \in Workers :
       /\ tx[w].pc = "accept_request"
       /\ tx[v].pc \in {"select_offer", "select_commit"}
       /\ RequestRow(tx[w].rid) \in tx[v].locks
       /\ Wants(v) \cap tx[w].locks # {}

(* ------------------- the handlers that take no lock -------------------- *)
(* provider_reject_offer, cancel_request and refresh_offer_lifecycle run   *)
(* outside transaction.atomic(): every query is committed on its own, and  *)
(* another request can run between two of them.  A worker keeps what it    *)
(* read (the model instances) in tx and writes from it later.  A write     *)
(* waits while another transaction holds the row with select_for_update.   *)
MaxRaceRequests == 1
MaxRaceTime == 2

Unlocked(row) == \A v \in Workers : row \notin tx[v].locks

Read(w, pc, read) == [pc |-> pc, locks |-> {}] @@ read @@ tx[w]

(* get_object_or_404(ProviderOffer ... select_related("service_request"),  *)
(* status="pending"): the offer and its request in one query               *)
RejectRead(w, p, rid) ==
    /\ tx[w] = Idle
    /\ offers[<<rid, p>>].status = "pending"
    /\ tx' = [tx EXCEPT ![w] = Read(w, "reject_save",
                                    [p |-> p, rid |-> rid, t |-> now, request |-> requests[rid]])]
    /\ UNCHANGED <<settings, available, rating, now, requests, next_id, offers, wallets, ledger, appointments, messages>>

(* offer.save(update_fields=["status", "responded_at"]) *)
RejectSaveOffer(w) ==
    /\ tx[w].pc = "reject_save"
    /\ LET oid == <<tx[w].rid, tx[w].p>>
       IN /\ Free(w, OfferRow(oid))
          /\ IF offers[oid] = NoOffer
             THEN /\ Finish(w)
                  /\ UNCHANGED offers
             ELSE /\ offers' = [offers EXCEPT ![oid].status = "rejected",
                                              ![oid].responded_at = tx[w].t]
                  /\ tx' = [tx EXCEPT ![w] = Read(w, "reject_check", << >>)]
    /\ UNCHANGED <<settings, available, rating, now, requests, next_id, wallets, ledger, appointments, messages>>

(* the two exists() queries on the offers of the request *)
RejectCheck(w) ==
    /\ tx[w].pc = "reject_check"
    /\ tx' = [tx EXCEPT ![w] = Read(w, "reject_write",
                 [has_accepted_offer |-> OffersWith(offers, tx[w].rid, {"accepted"}) # {},
                  has_pending |-> OffersWith(offers, tx[w].rid, {"pending"}) # {}])]
    /\ UNCHANGED <<settings, available, rating, now, requests, next_id, offers, wallets, ledger, appointments, messages>>

(* service_request.save(update_fields=["status"]) from a model instance:   *)
(* nothing is written when the row is gone                                 *)
save_status(reqs, rid, status) ==
    IF reqs[rid] = NoRequest THEN reqs ELSE [reqs EXCEPT ![rid].status = status]

(* dispatch_next_provider_offer(service_request) called with the instance  *)
(* read earlier: its queries and writes are taken together; the save       *)
(* writes status and the three matched_ fields of the row                  *)
dispatch_from_instance(db, rid, service_request, t, s) ==
    LET d == dispatch_next_provider_offer(rid, service_request, db.offers, t, s)
    IN IF db.requests[rid] = NoRequest
       THEN Respond(db, "error")
       ELSE Respond([db EXCEPT !.offers = d.offers,
                               !.requests[rid] = Unmatch(@, d.request.status)],
                    d.result)

(* the rest of provider_reject_offer: the request status, the next tier    *)
(* or service_request.delete()                                             *)
RejectWrite(w) ==
    /\ tx[w].pc = "reject_write"
    /\ Free(w, RequestRow(tx[w].rid))
    /\ LET rid == tx[w].rid
           d == dispatch_from_instance(Db, rid, tx[w].request, tx[w].t, settings)
       IN IF tx[w].has_accepted_offer
          THEN Commit([Db EXCEPT !.requests = save_status(requests, rid, "pending_customer")])
          ELSE IF tx[w].has_pending
          THEN Commit(Db)
          ELSE IF d.result = "offers-created"
          THEN Commit(d)
          ELSE IF d.result = "error"
          THEN Commit(Db)
          ELSE Commit(DeleteCascade(d, rid))
    /\ Finish(w)
    /\ UNCHANGED <<settings, available, rating, now, next_id>>

(* cancel_request: get_object_or_404 and the check of the instance *)
CancelRead(w, rid) ==
    /\ tx[w] = Idle
    /\ requests[rid] # NoRequest
    /\ requests[rid].status \in {"new", "pending_provider", "pending_customer"}
    /\ requests[rid].matched_provider = NoProvider
    /\ tx' = [tx EXCEPT ![w] = Read(w, "cancel_offers", [rid |-> rid, t |-> now])]
    /\ UNCHANGED <<settings, available, rating, now, requests, next_id, offers, wallets, ledger, appointments, messages>>

(* provider_offers.filter(status__in=["pending", "accepted"]).update(...) *)
CancelExpireOffers(w) ==
    /\ tx[w].pc = "cancel_offers"
    /\ LET open == { o \in OfferIds : /\ o[1] = tx[w].rid
                                      /\ offers[o].status \in {"pending", "accepted"} }
       IN /\ \A o \in open : Free(w, OfferRow(o))
          /\ offers' = [o \in OfferIds |->
                          IF o \in open
                          THEN [offers[o] EXCEPT !.status = "expired", !.responded_at = tx[w].t]
                          ELSE offers[o]]
    /\ tx' = [tx EXCEPT ![w] = Read(w, "cancel_save", << >>)]
    /\ UNCHANGED <<settings, available, rating, now, requests, next_id, wallets, ledger, appointments, messages>>

(* service_request.save(update_fields=["status", "matched_provider",       *)
(* "matched_offer", "matched_at"])                                         *)
CancelSave(w) ==
    /\ tx[w].pc = "cancel_save"
    /\ Free(w, RequestRow(tx[w].rid))
    /\ requests' = IF requests[tx[w].rid] = NoRequest THEN requests
                   ELSE [requests EXCEPT ![tx[w].rid] = Unmatch(@, "cancelled")]
    /\ Finish(w)
    /\ UNCHANGED <<settings, available, rating, now, next_id, offers, wallets, ledger, appointments, messages>>

SweepPcs == {"sweep_expire", "sweep_reminders", "sweep_remind", "sweep_check", "sweep_write"}

(* history kept with a running sweep: the request and offer tables as they *)
(* were when the earliest of the sweeps now running began                  *)
started_from(w) ==
    IF \E v \in Workers \ {w} : tx[v].pc \in SweepPcs
    THEN tx[CHOOSE v \in Workers \ {w} : tx[v].pc \in SweepPcs].started_from
    ELSE [requests |-> requests, offers |-> offers]

(* refresh_offer_lifecycle: now, the backfill of expires_at and the ids of *)
(* the requests with an offer to expire                                    *)
SweepReadExpired(w) ==
    /\ tx[w] = Idle
    /\ LET expiry_minutes == get_offer_expiry_minutes(settings)
           backfilled ==
               [o \in OfferIds |->
                  IF IsPending(offers[o]) /\ offers[o].expires_at = Null
                  THEN [offers[o] EXCEPT !.expires_at =
                           (IF offers[o].sent_at # Null THEN offers[o].sent_at ELSE now)
                              + expiry_minutes]
                  ELSE offers[o]]
           expired_qs == { o \in OfferIds : /\ IsPending(backfilled[o])
                                            /\ backfilled[o].expires_at # Null
                                            /\ backfilled[o].expires_at <= now }
       IN /\ offers' = backfilled
          /\ tx' = [tx EXCEPT ![w] = Read(w, "sweep_expire",
                       [t |-> now, expired_request_ids |-> { o[1] : o \in expired_qs },
                        started_from |-> started_from(w)])]
    /\ UNCHANGED <<settings, available, rating, now, requests, next_id, wallets, ledger, appointments, messages>>

(* expired_qs.update(status="expired", responded_at=now) *)
SweepExpire(w) ==
    /\ tx[w].pc = "sweep_expire"
    /\ LET expired_qs == { o \in OfferIds : /\ IsPending(offers[o])
                                            /\ offers[o].expires_at # Null
                                            /\ offers[o].expires_at <= tx[w].t }
       IN offers' = [o \in OfferIds |->
                       IF o \in expired_qs
                       THEN [offers[o] EXCEPT !.status = "expired", !.responded_at = tx[w].t]
                       ELSE offers[o]]
    /\ tx' = [tx EXCEPT ![w] = Read(w, "sweep_reminders", << >>)]
    /\ UNCHANGED <<settings, available, rating, now, requests, next_id, wallets, ledger, appointments, messages>>

(* reminder_qs = list(...): the offers that are due a reminder *)
SweepReadReminders(w) ==
    /\ tx[w].pc = "sweep_reminders"
    /\ LET t == tx[w].t
           reminder_deadline == t + get_offer_reminder_minutes(settings)
       IN tx' = [tx EXCEPT ![w] = Read(w, "sweep_remind",
                    [reminder_qs |-> { o \in OfferIds : /\ IsPending(offers[o])
                                                        /\ offers[o].expires_at # Null
                                                        /\ offers[o].expires_at > t
                                                        /\ offers[o].expires_at <= reminder_deadline
                                                        /\ offers[o].reminder_sent_at = Null }])]
    /\ UNCHANGED <<settings, available, rating, now, requests, next_id, offers, wallets, ledger, appointments, messages>>

(* one turn of the reminder loop: send_sms and                             *)
(* offer.save(update_fields=["reminder_sent_at"])                          *)
SweepRemind(w, o) ==
    /\ tx[w].pc = "sweep_remind"
    /\ o \in tx[w].reminder_qs
    /\ IF offers[o] = NoOffer
       THEN /\ Finish(w)
            /\ UNCHANGED offers
       ELSE /\ offers' = [offers EXCEPT ![o].reminder_sent_at = tx[w].t]
            /\ tx' = [tx EXCEPT ![w].reminder_qs = @ \ {o}]
    /\ UNCHANGED <<settings, available, rating, now, requests, next_id, wallets, ledger, appointments, messages>>

(* after the loop: return when nothing expired, else                       *)
(* impacted_requests = list(ServiceRequest.objects.filter(id__in=...))     *)
SweepReadImpacted(w) ==
    /\ tx[w].pc = "sweep_remind"
    /\ tx[w].reminder_qs = {}
    /\ IF tx[w].expired_request_ids = {}
       THEN Finish(w)
       ELSE tx' = [tx EXCEPT ![w] = Read(w, "sweep_check",
                      [impacted_requests |->
                          [rid \in { r \in tx[w].expired_request_ids : requests[r] # NoRequest }
                             |-> requests[rid]]])]
    /\ UNCHANGED <<settings, available, rating, now, requests, next_id, offers, wallets, ledger, appointments, messages>>

(* one turn of the reconcile loop up to its two exists() queries; a closed *)
(* or matched instance is skipped                                          *)
SweepCheck(w) ==
    /\ tx[w].pc = "sweep_check"
    /\ IF DOMAIN tx[w].impacted_requests = {}
       THEN Finish(w)
       ELSE \E rid \in DOMAIN tx[w].impacted_requests :
              LET service_request == tx[w].impacted_requests[rid]
                  rest == [r \in DOMAIN tx[w].impacted_requests \ {rid} |->
                              tx[w].impacted_requests[r]]
              IN IF \/ service_request.status \in ClosedStatuses
                    \/ service_request.matched_provider # NoProvider
                 THEN tx' = [tx EXCEPT ![w].impacted_requests = rest]
                 ELSE tx' = [tx EXCEPT ![w] =
                               [pc |-> "sweep_write", locks |-> {}, t |-> tx[w].t,
                                started_from |-> tx[w].started_from,
                                impacted_requests |-> rest, rid |-> rid,
                                request |-> service_request,
                                has_pending |-> OffersWith(offers, rid, {"pending"}) # {},
                                has_accepted |-> OffersWith(offers, rid, {"accepted"}) # {}]]
    /\ UNCHANGED <<settings, available, rating, now, requests, next_id, offers, wallets, ledger, appointments, messages>>

(* the rest of the turn: the status of the request or the next tier *)
SweepWrite(w) ==
    /\ tx[w].pc = "sweep_write"
    /\ Free(w, RequestRow(tx[w].rid))
    /\ LET rid == tx[w].rid
           service_request == tx[w].request
       IN IF tx[w].has_accepted
          THEN Commit([Db EXCEPT !.requests =
                          IF service_request.status # "pending_customer"
                          THEN save_status(requests, rid, "pending_customer") ELSE requests])
          ELSE IF tx[w].has_pending
          THEN Commit([Db EXCEPT !.requests =
                          IF service_request.status # "pending_provider"
                          THEN save_status(requests, rid, "pending_provider") ELSE requests])
          ELSE Commit(dispatch_from_instance(Db, rid, service_request, tx[w].t, settings))
    /\ tx' = [tx EXCEPT ![w] = [pc |-> "sweep_check", locks |-> {}, t |-> tx[w].t,
                                started_from |-> tx[w].started_from,
                                impacted_requests |-> tx[w].impacted_requests]]
    /\ UNCHANGED <<settings, available, rating, now, next_id>>

(* provider_accept_offer run without overlap: its three rows are free *)
RaceAccept(p, rid, raw) ==
    /\ Unlocked(OfferRow(<<rid, p>>))
    /\ Unlocked(RequestRow(rid))
    /\ Unlocked(WalletRow(p))
    /\ ProviderAcceptOffer(p, rid, raw)

RaceInit ==
    /\ Init
    /\ settings.OFFER_EXPIRY_MINUTES = 2
    /\ settings.OFFER_REMINDER_MINUTES = 1

RejectStep == \E w \in Workers : RejectSaveOffer(w) \/ RejectCheck(w) \/ RejectWrite(w)

SweepStep ==
    \E w \in Workers :
       \/ SweepReadExpired(w)
       \/ SweepExpire(w)
       \/ SweepReadReminders(w)
       \/ \E o \in OfferIds : SweepRemind(w, o)
       \/ SweepReadImpacted(w)
       \/ SweepCheck(w)
       \/ SweepWrite(w)

(* the worker that serves the provider's reject and the sweep, and the     *)
(* worker that serves the customer's select and cancel                     *)
RaceMutator == "w1"
RaceCustomer == "w2"

RaceNext ==
    \/ Tick(MaxRaceTime)
    \/ \E district \in Districts : CreateRequest("Lefkosa", district, MaxRaceRequests)
    \/ \E p \in Providers, rid \in RequestIds, raw \in ConcQuoteInputs : RaceAccept(p, rid, raw)
    \/ \E p \in Providers, rid \in RequestIds : RejectRead(RaceMutator, p, rid)
    \/ RejectSaveOffer(RaceMutator)
    \/ RejectCheck(RaceMutator)
    \/ RejectWrite(RaceMutator)
    \/ SweepReadExpired(RaceMutator)
    \/ SweepExpire(RaceMutator)
    \/ SweepReadReminders(RaceMutator)
    \/ \E o \in OfferIds : SweepRemind(RaceMutator, o)
    \/ SweepReadImpacted(RaceMutator)
    \/ SweepCheck(RaceMutator)
    \/ SweepWrite(RaceMutator)
    \/ \E rid \in RequestIds : CancelRead(RaceCustomer, rid)
    \/ CancelExpireOffers(RaceCustomer)
    \/ CancelSave(RaceCustomer)
    \/ \E rid \in RequestIds, oid \in OfferIds : SelectBegin(RaceCustomer, rid, oid)
    \/ SelectLockRequest(RaceCustomer)
    \/ SelectLockOffer(RaceCustomer)
    \/ SelectCommit(RaceCustomer)

RaceSpec == RaceInit /\ [][RaceNext]_vars

(* C29: a step of provider_reject_offer or of the sweep leaves a request   *)
(* that is matched or cancelled with that status, gives it no new pending  *)
(* offer and does not delete it, however the handler's reads and writes    *)
(* interleave with a select or a cancel.                                   *)
C29_UnlockedMutationsSafe ==
    [][ (RejectStep \/ SweepStep) =>
          \A rid \in RequestIds :
             requests[rid].status \in {"matched", "cancelled"} =>
                /\ requests'[rid] # NoRequest
                /\ requests'[rid].status = requests[rid].status
                /\ OffersWith(offers', rid, {"pending"}) \subseteq OffersWith(offers, rid, {"pending"}) ]_vars

(* a request that has its matched provider and offer and is back in        *)
(* pending_customer                                                        *)
C29_Witness ==
    \E rid \in RequestIds :
       /\ requests[rid].status = "pending_customer"
       /\ requests[rid].matched_provider # NoProvider
       /\ offers[requests[rid].matched_offer].status = "accepted"

(* ----------------------- two sweeps at one time ------------------------ *)
(* Every view that calls refresh_offer_lifecycle can run it while another  *)
(* request runs it too.  Requests are created, offers accepted and the     *)
(* clock moves only while no sweep is running, so that the sweeps that     *)
(* overlap read the same clock and meet no other writer.                   *)
Quiet == \A w \in Workers : tx[w] = Idle

QuietTick == Quiet /\ Tick(MaxRaceTime)

QuietCreateRequest(district) == Quiet /\ CreateRequest("Lefkosa", district, MaxRaceRequests)

QuietAccept(p, rid, raw) == Quiet /\ ProviderAcceptOffer(p, rid, raw)

SweepNext ==
    \/ QuietTick
    \/ \E district \in Districts : QuietCreateRequest(district)
    \/ \E p \in Providers, rid \in RequestIds, raw \in ConcQuoteInputs : QuietAccept(p, rid, raw)
    \/ \E w \in Workers : SweepReadExpired(w)
    \/ \E w \in Workers : SweepExpire(w)
    \/ \E w \in Workers : SweepReadReminders(w)
    \/ \E w \in Workers, o \in OfferIds : SweepRemind(w, o)
    \/ \E w \in Workers : SweepReadImpacted(w)
    \/ \E w \in Workers : SweepCheck(w)
    \/ \E w \in Workers : SweepWrite(w)

SweepSpec == RaceInit /\ [][SweepNext]_vars

(* the last of the running sweeps returns *)
LastSweepReturns(w) ==
    /\ tx[w].pc \in SweepPcs
    /\ tx'[w] = Idle
    /\ \A v \in Workers \ {w} : tx[v].pc \notin SweepPcs

(* C30: when the last of two overlapping sweeps returns, the requests and  *)
(* offers are what one sweep of the tables they started from leaves; a     *)
(* reminder is sent only for an offer that has had none.  (One offer per   *)
(* request and provider is the key of the offer table.)                    *)
C30_SweepReentrant ==
    [][ /\ \A w \in Workers :
              LastSweepReturns(w) =>
                 LET single == refresh_offer_lifecycle(tx[w].started_from.requests,
                                                       tx[w].started_from.offers,
                                                       tx[w].t, settings)
                 IN /\ requests' = single.requests
                    /\ offers' = single.offers
        /\ \A w \in Workers, o \in OfferIds :
              (SweepRemind(w, o) /\ offers[o] # NoOffer) => offers[o].reminder_sent_at = Null ]_vars

(* a request left in status new with a pending offer of the next tier *)
C30_Witness ==
    \E rid \in RequestIds :
       /\ requests[rid].status = "new"
       /\ OffersWith(offers, rid, {"pending"}) # {}

(* C31: a sweep deletes no request.  For a request with an offer that the  *)
(* sweep expired: a matched, completed or cancelled request is unchanged;  *)
(* otherwise it is pending_customer if it has an accepted offer, else      *)
(* pending_provider if one of its offers is still pending, else it went to *)
(* the dispatcher: pending_provider with new pending offers, or, every     *)
(* eligible provider having been contacted, new with no live offer.        *)
C31_SweepReconciles ==
    [][Sweep =>
         \A rid \in RequestIds :
            requests[rid] # NoRequest =>
               LET expired_now == { p \in Providers : /\ offers[<<rid, p>>].status = "pending"
                                                      /\ offers'[<<rid, p>>].status = "expired" }
                   still_pending == OffersWith(offers, rid, {"pending"})
                                       \cap OffersWith(offers', rid, {"pending"})
                   created == OffersOf(offers', rid) \ OffersOf(offers, rid)
               IN /\ requests'[rid] # NoRequest
                  /\ expired_now # {} =>
                       IF requests[rid].status \in ClosedStatuses
                       THEN requests'[rid] = requests[rid]
                       ELSE IF OffersWith(offers', rid, {"accepted"}) # {}
                       THEN requests'[rid].status = "pending_customer" /\ created = {}
                       ELSE IF still_pending # {}
                       THEN requests'[rid].status = "pending_provider" /\ created = {}
                       ELSE \/ /\ requests'[rid].status = "pending_provider"
                               /\ created # {}
                               /\ \A p \in created : offers'[<<rid, p>>].status = "pending"
                            \/ /\ requests'[rid].status = "new"
                               /\ created = {}
                               /\ OffersWith(offers', rid, {"pending", "accepted"}) = {}
                               /\ base_qs(requests[rid]) \subseteq OffersOf(offers, rid)]_vars

(* a sweep has expired the first tier and offered the request to the next: *)
(* the new offer was sent when the old one was answered                    *)
C31_Witness ==
    \E rid \in RequestIds, p \in Providers, q \in Providers :
       /\ requests[rid].status = "pending_provider"
       /\ offers[<<rid, p>>].status = "expired"
       /\ offers[<<rid, q>>].status = "pending"
       /\ offers[<<rid, q>>].sent_at = offers[<<rid, p>>].responded_at
       /\ offers[<<rid, q>>].sent_at = now

(* C32: the offers of a request that one step creates (one call of         *)
(* dispatch_next_provider_offer) all carry the same sequence number: the   *)
(* number of offers the request had before the call, plus one.             *)
C32_WaveSequence ==
    [][\A rid \in RequestIds :
         \A p \in OffersOf(offers', rid) \ OffersOf(offers, rid) :
            offers'[<<rid, p>>].sequence = Cardinality(OffersOf(offers, rid)) + 1]_vars

(* two offers of a request sent by the same dispatch with different        *)
(* sequence numbers                                                        *)
C32_Witness ==
    \E rid \in RequestIds, p \in Providers, q \in Providers :
       /\ offers[<<rid, p>>] # NoOffer
       /\ offers[<<rid, q>>] # NoOffer
       /\ offers[<<rid, p>>].sent_at = offers[<<rid, q>>].sent_at
       /\ offers[<<rid, p>>].sequence + 1 = offers[<<rid, q>>].sequence

(* C33: among the accepted offers of a request the offers with the         *)
(* smallest sequence number have speed score 10, those with the largest    *)
(* have 0, the others are interpolated linearly between the two (to one    *)
(* decimal); when all have the same sequence number each has 10.           *)
C33_SpeedScore ==
    \A rid \in RequestIds : \A items \in accepted_offers(rid) :
       LET out == score_accepted_offers(items)
           sequences == { sequence_or_1(out[i]) : i \in DOMAIN out }
       IN \A i \in DOMAIN out :
             LET lo == CHOOSE m \in sequences : \A v \in sequences : m <= v
                 hi == CHOOSE m \in sequences : \A v \in sequences : m >= v
                 sequence == sequence_or_1(out[i])
             IN /\ lo = hi => out[i].speed_score = 100
                /\ sequence = lo => out[i].speed_score = 100
                /\ lo < hi /\ sequence = hi => out[i].speed_score = 0
                /\ lo < hi
                   => 2 * (out[i].speed_score * (hi - lo) - 100 * (hi - sequence))
                         \in (lo - hi)..(hi - lo)

(* the accepted offers of a request all have one sequence number above 1   *)
(* and a speed score of 0                                                  *)
C33_Witness ==
    \E rid \in RequestIds : \E items \in accepted_offers(rid) :
       LET out == score_accepted_offers(items)
       IN /\ out # <<>>
          /\ \A i \in DOMAIN out : /\ out[i].sequence = out[1].sequence
                                   /\ out[i].sequence > 1
                                   /\ out[i].speed_score = 0

(* C34: an apply_wallet_transaction whose amount would take the balance    *)
(* below zero writes nothing: the wallets and the ledger are as before,    *)
(* also when the provider had no wallet yet.                               *)
C34_FailedTransactionWritesNothing ==
    [][\A p \in WalletProviders, amount \in WalletAmounts :
         (BalanceOf(p) + amount < 0 /\ WalletAdjustment(p, amount))
         => UNCHANGED <<wallets, ledger>>]_vars

(* a wallet that holds less than the amount of the adjustment and has no   *)
(* ledger row                                                              *)
C34_Witness ==
    \E p \in WalletProviders, amount \in WalletAmounts :
       /\ wallets[p] # NoWallet
       /\ wallets[p].balance + amount < 0
       /\ ledger[p] = <<>>

(* --------------------- a clock that never stops ------------------------ *)
(* Only the distance of a timestamp from now matters to the handlers.      *)
(* Once the clock is at MaxLiveTime a minute passes by moving every stored *)
(* timestamp one minute back, those at 0 staying there: they are in the    *)
(* past by MaxLiveTime minutes or more, which every comparison with now    *)
(* treats alike.                                                           *)
MaxLiveTime == 2

Earlier(t) == IF t = Null THEN Null ELSE Max(0, t - 1)

LiveTick ==
    IF now < MaxLiveTime
    THEN Tick(MaxLiveTime)
    ELSE /\ offers' = [o \in OfferIds |->
                         IF offers[o] = NoOffer THEN NoOffer
                         ELSE [offers[o] EXCEPT !.sent_at = Earlier(@),
                                                !.expires_at = Earlier(@),
                                                !.reminder_sent_at = Earlier(@),
                                                !.responded_at = Earlier(@)]]
         /\ requests' = [rid \in RequestIds |->
                           IF requests[rid] = NoRequest THEN NoRequest
                           ELSE [requests[rid] EXCEPT !.matched_at = Earlier(@)]]
         /\ UNCHANGED <<settings, available, rating, now, next_id, wallets, ledger, appointments, messages, tx>>

(* the deployment that expires an offer one minute after it was sent *)
LiveInit ==
    /\ TierInit
    /\ settings.OFFER_EXPIRY_MINUTES = 1

LiveNext ==
    \/ LiveTick
    \/ \E district \in Districts : CreateRequest("Lefkosa", district, MaxRequests)
    \/ Sweep
    \/ \E p \in Providers, rid \in RequestIds, raw \in ConcQuoteInputs :
          ProviderAcceptOffer(p, rid, raw)
    \/ \E p \in Providers, rid \in RequestIds : ProviderRejectOffer(p, rid)
    \/ \E rid \in RequestIds, oid \in OfferIds : SelectProviderOffer(rid, oid)
    \/ \E rid \in RequestIds : CancelRequest(rid)

(* a pending offer is past its expires_at: the next sweep expires it *)
Overdue ==
    \E o \in OfferIds : /\ offers[o].status = "pending"
                        /\ offers[o].expires_at # Null
                        /\ offers[o].expires_at <= now

(* Time keeps advancing and the views keep calling the sweep.  A sweep can *)
(* always run and leaves no offer overdue (the first part of C35), so weak *)
(* fairness of the sweep gives that, again and again, no offer is overdue; *)
(* the condition is kept in that form.                                     *)
SweepKeepsRunning == []<>(~Overdue)

LiveSpec == LiveInit /\ [][LiveNext]_vars /\ WF_vars(LiveTick) /\ SweepKeepsRunning

C36_StatusFollowsOffers ==
    \A rid \in RequestIds :
       requests[rid] # NoRequest =>
          LET has_pending == OffersWith(offers, rid, {"pending"}) # {}
              has_accepted == OffersWith(offers, rid, {"accepted"}) # {}
              status == requests[rid].status
          IN /\ (status = "pending_customer") <=>
                   (/\ requests[rid].matched_provider = NoProvider
                    /\ status # "cancelled"
                    /\ has_accepted)
             /\ (status = "pending_provider") => (has_pending /\ ~has_accepted)
             /\ (status = "new") => (~has_pending /\ ~has_accepted)

(* a request waiting for the customer with an accepted offer while another *)
(* offer of it is still pending                                            *)
C36_Witness ==
    \E rid \in RequestIds :
       /\ requests[rid] # NoRequest
       /\ requests[rid].status = "pending_customer"
       /\ OffersWith(offers, rid, {"accepted"}) # {}
       /\ OffersWith(offers, rid, {"pending"}) # {}

(* ------------------------- the matched offer --------------------------- *)
(* C37: the matched_offer of a matched request is an offer of that request *)
(* with status accepted and a quote amount above zero, made by the         *)
(* request's matched_provider; and no step changes matched_offer,          *)
(* matched_provider or the status of the matched offer of a matched or     *)
(* completed request.                                                      *)
C37_MatchedOfferStable ==
    /\ [](\A rid \in RequestIds :
            (requests[rid] # NoRequest /\ requests[rid].status = "matched") =>
               LET oid == requests[rid].matched_offer
               IN /\ oid \in OfferIds
                  /\ oid[1] = rid
                  /\ offers[oid].status = "accepted"
                  /\ offers[oid].quote_amount # Null
                  /\ offers[oid].quote_amount > 0
                  /\ oid[2] = requests[rid].matched_provider)
    /\ [][\A rid \in RequestIds :
            (/\ requests[rid] # NoRequest
             /\ requests[rid].status \in {"matched", "completed"}
             /\ requests[rid].matched_offer # NoOfferId) =>
               /\ requests'[rid] # NoRequest
               /\ requests'[rid].matched_offer = requests[rid].matched_offer
               /\ requests'[rid].matched_provider = requests[rid].matched_provider
               /\ offers'[requests[rid].matched_offer].status =
                     offers[requests[rid].matched_offer].status]_vars

(* a completed request that still carries the offer the customer selected, *)
(* after its appointment was completed                                     *)
C37_Witness ==
    \E rid \in RequestIds :
       /\ requests[rid] # NoRequest
       /\ requests[rid].status = "completed"
       /\ requests[rid].matched_offer \in OfferIds
       /\ offers[requests[rid].matched_offer].status = "accepted"
       /\ requests[rid].matched_offer[2] = requests[rid].matched_provider
       /\ appointments[rid] # NoAppointment
       /\ appointments[rid].status = "completed"

(* ---------------------- handlers that move no credit ------------------- *)
(* C38: select_provider_offer, cancel_request, provider_reject_offer and   *)
(* the sweep change no wallet and add no ledger row; the provider of a     *)
(* paid offer they expire gets nothing back.                               *)
C38_NoCreditMoved ==
    [][(\/ Sweep
        \/ \E rid \in RequestIds, oid \in OfferIds : SelectProviderOffer(rid, oid)
        \/ \E rid \in RequestIds : CancelRequest(rid)
        \/ \E p \in Providers, rid \in RequestIds : ProviderRejectOffer(p, rid))
       => UNCHANGED <<wallets, ledger>>]_vars

(* the customer selected another offer: a paid offer is expired, and the   *)
(* last row of its provider's ledger is still the quote fee paid for it    *)
C38_Witness ==
    \E o \in OfferIds :
       /\ offers[o].status = "expired"
       /\ offers[o].quote_amount # Null
       /\ requests[o[1]] # NoRequest
       /\ requests[o[1]].status = "matched"
       /\ requests[o[1]].matched_offer # o
       /\ ledger[o[2]] # <<>>
       /\ LET last == ledger[o[2]][Len(ledger[o[2]])]
          IN /\ last.transaction_type = "quote_fee"
             /\ last.reference_offer = o
             /\ wallets[o[2]].balance = last.balance_after

(* ------------------------ dispatching comes to an end ------------------ *)
(* C39: over the life of a request every eligible provider gets at most    *)
(* one offer: a step only adds offers, only for eligible providers that    *)
(* had none, and never makes an answered offer pending again; once every   *)
(* eligible provider has an offer the dispatcher returns all-contacted;    *)
(* and, with the clock and the sweep running for ever, from some point on  *)
(* no offer is created or opened again.                                    *)
C39_DispatchEnds ==
    /\ [][\A rid \in RequestIds :
            requests'[rid] # NoRequest =>
               /\ OffersOf(offers, rid) \subseteq OffersOf(offers', rid)
               /\ OffersOf(offers', rid) \subseteq base_qs(requests'[rid])
               /\ \A q \in OffersOf(offers, rid) :
                     /\ offers'[<<rid, q>>].sequence = offers[<<rid, q>>].sequence
                     /\ offers[<<rid, q>>].status # "pending"
                           => offers'[<<rid, q>>].status # "pending"]_vars
    /\ [](\A rid \in RequestIds :
            (/\ requests[rid] # NoRequest
             /\ OffersOf(offers, rid) # {}
             /\ base_qs(requests[rid]) \subseteq OffersOf(offers, rid)) =>
               dispatch_next_provider_offer(rid, requests[rid], offers, now, settings).result
                  = "all-contacted")
    /\ <>[][\A rid \in RequestIds :
              /\ OffersOf(offers', rid) \subseteq OffersOf(offers, rid)
              /\ \A q \in OffersOf(offers', rid) :
                    offers[<<rid, q>>].status # "pending"
                       => offers'[<<rid, q>>].status # "pending"]_vars

(* every eligible provider of a request has been offered the request and   *)
(* none of the offers is open: the request is in status new                *)
C39_Witness ==
    \E rid \in RequestIds :
       /\ requests[rid] # NoRequest
       /\ requests[rid].status = "new"
       /\ Cardinality(OffersOf(offers, rid)) >= 2
       /\ OffersOf(offers, rid) = base_qs(requests[rid])
       /\ OffersWith(offers, rid, {"pending", "accepted"}) = {}

(* -------------------- providers that come and go ----------------------- *)
(* POST provider_profile: the provider sets is_available *)
ProviderProfile(p, is_available) ==
    /\ available' = IF is_available THEN available \cup {p} ELSE available \ {p}
    /\ UNCHANGED <<settings, rating, now, requests, next_id, offers, wallets, ledger,
                   appointments, messages, tx>>

(* the providers of Lefkosa that offer the service of the requests *)
ProfileProviders == {"p1", "p2", "p4"}

AvailNext ==
    \/ Tick(MaxTime)
    \/ CreateRequest("Lefkosa", "Ortakoy", MaxRequests)
    \/ Sweep
    \/ \E p \in Providers, rid \in RequestIds, raw \in ConcQuoteInputs :
          ProviderAcceptOffer(p, rid, raw)
    \/ \E p \in Providers, rid \in RequestIds : ProviderRejectOffer(p, rid)
    \/ \E rid \in RequestIds, oid \in OfferIds : SelectProviderOffer(rid, oid)
    \/ \E rid \in RequestIds : CancelRequest(rid)
    \/ \E p \in ProfileProviders, is_available \in BOOLEAN : ProviderProfile(p, is_available)

AvailSpec == RaceInit /\ [][AvailNext]_vars

(* C40: a request in status new is left as it is, with its offers, by      *)
(* every step except the customer's cancel_request, also when a provider   *)
(* that could serve it has become available.                               *)
C40_NewIsFinal ==
    [][\A rid \in RequestIds :
          (requests[rid] # NoRequest /\ requests[rid].status = "new") =>
             \/ /\ requests'[rid] = requests[rid]
                /\ \A p \in Providers : offers'[<<rid, p>>] = offers[<<rid, p>>]
             \/ CancelRequest(rid) /\ requests'[rid].status = "cancelled"]_vars

(* a request the sweep left in status new, its offers expired, while a     *)
(* provider of its city and service that never got an offer of it has      *)
(* become available                                                        *)
C40_Witness ==
    \E rid \in RequestIds :
       /\ requests[rid] # NoRequest
       /\ requests[rid].status = "new"
       /\ base_qs(requests[rid]) \ OffersOf(offers, rid) # {}
       /\ \E q \in OffersOf(offers, rid) : offers[<<rid, q>>].status = "expired"
====
